---- MODULE Spec2Model ----
(***************************************************************************)
(* Model of the article-processing pipeline of navigate-app                *)
(* (backend/ml_engine/services/ml_pipeline.py and its collaborators).      *)
(*                                                                         *)
(* Scores are Python floats in the source; here they are fixed-point       *)
(* integers in millionths (Unit = 1.0).  An article's text is a set of     *)
(* lower-cased phrases taken from a small vocabulary; a regular expression *)
(* or keyword of the source is represented by the phrase it finds.         *)
(***************************************************************************)
EXTENDS Integers, Sequences, FiniteSets, TLC

VARIABLES
    text,        \* the article's crawler-owned content (title + content)
    article,     \* the stored NewsArticle row: pipeline-owned fields
    businesses,  \* the Business table: id -> row
    recs,        \* the Recommendation table: set of rows
    now,         \* current day (timezone.now())
    nruns,       \* number of process_article calls made so far
    nedits,      \* number of Business edits made so far
    last,        \* observation of the most recent process_article call
    repeat,      \* the call before `last` was a successful save=True call with the same inputs
    task,        \* Celery bookkeeping of process_article_async
    txn,         \* open transactions of concurrently running workers
    settings,    \* Django settings: LLM_EXTRACTION_ENABLED
    geo,         \* one application of GeographicMatcher.is_relevant: inputs and result
    call,        \* one application of another pure function: inputs and result
    config       \* the stored BroadcastabilityConfig row (pk = 1)

vars == <<text, article, businesses, recs, now, nruns, nedits, last, repeat, task, txn, settings,
          geo, call, config>>

---------------------------------------------------------------------------
(* Bounds *)
NumBusinesses == 2
MaxRuns == 2
MaxEdits == 1
MaxDay == 6

(* Fixed-point representation of 1.0 *)
Unit == 1000000

None == "None"
\* integer fields use their own "no value": no date, no attendance, no day count
NoDay == -1000
NoAttendance == 0
NoDays == -1

Min(a, b) == IF a < b THEN a ELSE b
Max(a, b) == IF a > b THEN a ELSE b

RECURSIVE SumOver(_, _)
SumOver(S, f) ==
    IF S = {} THEN 0
    ELSE LET x == CHOOSE y \in S : TRUE IN f[x] + SumOver(S \ {x}, f)

---------------------------------------------------------------------------
(* Article texts.  A text is [words, attendance, eventDay, short]:         *)
(*   words      the vocabulary phrases occurring in title + content        *)
(*   attendance the number an ATTENDANCE_PATTERNS phrase yields (0: none)  *)
(*   eventDay   the day a date phrase denotes (NoDay: no date phrase)      *)
(*   short      len(content) < 200                                         *)

Vocabulary ==
    { "campeonato", "final de", "futbol", "mundial", "cerveza", "concierto",
      "homicidio", "suscribete", "seleccion colombia", "masivo",
      "medellin", "bogota", "en qatar", "el poblado" }

\* pattern p occurs inside phrase w (p is a proper substring of w)
SubstringOf ==
    { <<"final", "final de">>, <<"seleccion", "seleccion colombia">>,
      <<"qatar", "en qatar">>, <<"masiv", "masivo">> }

\* re.search(p, text) / p in text
Found(p, t) == \E w \in t.words : p = w \/ <<p, w>> \in SubstringOf

\* len(re.findall(p, text))
Matches(p, t) == Cardinality({w \in t.words : p = w \/ <<p, w>> \in SubstringOf})

Texts ==
    { \* a league match in Medellin
      [words |-> {"campeonato", "futbol", "cerveza", "medellin", "el poblado"},
       attendance |-> 40000, eventDay |-> 8, short |-> FALSE],
      \* a World Cup final abroad, no Colombian side
      [words |-> {"final de", "futbol", "mundial", "en qatar"},
       attendance |-> 80000, eventDay |-> 8, short |-> FALSE],
      \* Colombia playing abroad
      [words |-> {"final de", "futbol", "seleccion colombia", "en qatar", "cerveza"},
       attendance |-> 0, eventDay |-> 8, short |-> FALSE],
      \* a crime report
      [words |-> {"homicidio", "medellin"},
       attendance |-> 0, eventDay |-> NoDay, short |-> FALSE],
      \* a concert announcement cut off by a subscription wall
      [words |-> {"concierto", "suscribete", "bogota"},
       attendance |-> 0, eventDay |-> NoDay, short |-> TRUE],
      \* a massive concert in Bogota
      [words |-> {"concierto", "masivo", "bogota", "cerveza"},
       attendance |-> 0, eventDay |-> 8, short |-> FALSE],
      \* a stub with nothing recognisable
      [words |-> {}, attendance |-> 0, eventDay |-> NoDay, short |-> TRUE] }


---------------------------------------------------------------------------
(* FeatureExtractor (feature_extractor.py) *)

\* COLOMBIAN_CITIES, in list order; each entry is <<phrase in lower case, city name>>
COLOMBIAN_CITIES == << <<"medellin", "Medellín">>, <<"bogota", "Bogotá">> >>

MEDELLIN_NEIGHBORHOODS == << <<"el poblado", "El Poblado">> >>

\* built-in EVENT_TYPE_PATTERNS, in dictionary order, restricted to the vocabulary
EVENT_TYPE_PATTERNS ==
    << [event_type |-> "sports_match",  patterns |-> <<"campeonato", "final de">>],
       [event_type |-> "concert",       patterns |-> <<"concierto">>],
       [event_type |-> "international", patterns |-> <<"mundial">>],
       [event_type |-> "crime",         patterns |-> <<"homicidio">>] >>

\* ExtractionPattern rows of the seed migration that can hit the vocabulary,
\* in Meta.ordering ('-weight', 'id'); weight in tenths
ExtractionPatternTable ==
    << [target |-> "subtype", event_type |-> "sports_match", event_subtype |-> "colombian_soccer",
        pattern |-> "seleccion colombia", weight |-> 20, is_active |-> TRUE],
       [target |-> "type", event_type |-> "concert", event_subtype |-> None,
        pattern |-> "concierto", weight |-> 20, is_active |-> TRUE],
       [target |-> "type", event_type |-> "sports_match", event_subtype |-> None,
        pattern |-> "final de", weight |-> 14, is_active |-> TRUE],
       [target |-> "type", event_type |-> "sports_match", event_subtype |-> None,
        pattern |-> "campeonato", weight |-> 11, is_active |-> TRUE],
       [target |-> "type", event_type |-> "crime", event_subtype |-> None,
        pattern |-> "homicidio", weight |-> 10, is_active |-> TRUE] >>

\* _load_patterns_cached: ExtractionPattern.objects.filter(is_active=True)
ActivePatterns(table) == SelectSeq(table, LAMBDA p : p.is_active)

\* a pattern string that re rejects with re.error: an unterminated character set
MalformedPatterns == {"[campeonato"}

Malformed(p) == p \in MalformedPatterns

\* max(scores, key=scores.get): the highest score, the first inserted key on a tie;
\* first[c] is the position at which key c was inserted
BestKey(keys, score, first) ==
    IF keys = {} THEN None
    ELSE CHOOSE c \in keys :
            \A d \in keys : score[c] > score[d]
                            \/ (score[c] = score[d] /\ first[c] <= first[d])

\* type_scores built from the database patterns (lines 221-228)
DbTypeKeys(pats, t) ==
    { pats[i].event_type : i \in { j \in 1..Len(pats) :
                                     pats[j].target = "type" /\ Matches(pats[j].pattern, t) > 0 } }

DbTypeScore(pats, t, c) ==
    LET idx == { j \in 1..Len(pats) : pats[j].target = "type" /\ pats[j].event_type = c
                                      /\ Matches(pats[j].pattern, t) > 0 }
    IN SumOver(idx, [j \in idx |-> Matches(pats[j].pattern, t) * pats[j].weight])

DbTypeFirst(pats, t, c) ==
    LET idx == { j \in 1..Len(pats) : pats[j].target = "type" /\ pats[j].event_type = c
                                      /\ Matches(pats[j].pattern, t) > 0 }
    IN CHOOSE j \in idx : \A k \in idx : j <= k

\* type_scores built from the built-in table (lines 231-237)
BuiltinTypeKeys(t) ==
    { EVENT_TYPE_PATTERNS[i].event_type : i \in { j \in 1..Len(EVENT_TYPE_PATTERNS) :
        \E k \in 1..Len(EVENT_TYPE_PATTERNS[j].patterns) :
            Matches(EVENT_TYPE_PATTERNS[j].patterns[k], t) > 0 } }

BuiltinIndex(c) == CHOOSE j \in 1..Len(EVENT_TYPE_PATTERNS) : EVENT_TYPE_PATTERNS[j].event_type = c

BuiltinTypeScore(t, c) ==
    LET ps == EVENT_TYPE_PATTERNS[BuiltinIndex(c)].patterns
        idx == 1..Len(ps)
    IN SumOver(idx, [k \in idx |-> Matches(ps[k], t)])

\* subtype_scores for the winning type (lines 247-256)
SubtypeKeys(pats, t, best) ==
    { pats[i].event_subtype : i \in { j \in 1..Len(pats) :
        pats[j].target = "subtype" /\ pats[j].event_type = best
        /\ Matches(pats[j].pattern, t) > 0 } }

SubtypeScore(pats, t, best, s) ==
    LET idx == { j \in 1..Len(pats) : pats[j].target = "subtype" /\ pats[j].event_type = best
                                      /\ pats[j].event_subtype = s
                                      /\ Matches(pats[j].pattern, t) > 0 }
    IN SumOver(idx, [j \in idx |-> Matches(pats[j].pattern, t) * pats[j].weight])

SubtypeFirst(pats, t, best, s) ==
    LET idx == { j \in 1..Len(pats) : pats[j].target = "subtype" /\ pats[j].event_type = best
                                      /\ pats[j].event_subtype = s
                                      /\ Matches(pats[j].pattern, t) > 0 }
    IN CHOOSE j \in idx : \A k \in idx : j <= k

\* the variant without the built-in fallback
extract_event_type_no_fallback(t, table) ==
    LET pats == ActivePatterns(table)
        dbKeys == DbTypeKeys(pats, t)
        best_type ==
            BestKey(dbKeys, [c \in dbKeys |-> DbTypeScore(pats, t, c)],
                    [c \in dbKeys |-> DbTypeFirst(pats, t, c)])
    IN IF best_type = None THEN <<None, None>>
       ELSE LET sk == SubtypeKeys(pats, t, best_type)
            IN <<best_type,
                 BestKey(sk, [s \in sk |-> SubtypeScore(pats, t, best_type, s)],
                         [s \in sk |-> SubtypeFirst(pats, t, best_type, s)])>>

\* returns <<event_type, event_subtype>>
extract_event_type(t, table) ==
    LET pats == ActivePatterns(table)
        dbKeys == DbTypeKeys(pats, t)
        best_type ==
            IF dbKeys # {}
            THEN BestKey(dbKeys, [c \in dbKeys |-> DbTypeScore(pats, t, c)],
                         [c \in dbKeys |-> DbTypeFirst(pats, t, c)])
            ELSE LET bk == BuiltinTypeKeys(t)
                 IN BestKey(bk, [c \in bk |-> BuiltinTypeScore(t, c)],
                            [c \in bk |-> BuiltinIndex(c)])
    IN IF best_type = None THEN <<None, None>>
       ELSE LET sk == SubtypeKeys(pats, t, best_type)
            IN <<best_type,
                 BestKey(sk, [s \in sk |-> SubtypeScore(pats, t, best_type, s)],
                         [s \in sk |-> SubtypeFirst(pats, t, best_type, s)])>>

\* re.findall raises re.error out of extract_event_type: for an active 'type'
\* pattern (line 224), or for an active 'subtype' pattern of the winning type
\* (line 252); neither call is inside a try
extract_event_type_raises(t, table) ==
    LET pats == ActivePatterns(table)
        bad_type == \E i \in 1..Len(pats) :
                        pats[i].target = "type" /\ Malformed(pats[i].pattern)
    IN \/ bad_type
       \/ /\ ~bad_type
          /\ \E i \in 1..Len(pats) :
                /\ pats[i].target = "subtype" /\ Malformed(pats[i].pattern)
                /\ pats[i].event_type = extract_event_type(t, table)[1]

\* first entry of an ordered <<phrase, name>> table whose phrase is in the text
FirstListed(table, t) ==
    LET hits == { i \in 1..Len(table) : Found(table[i][1], t) }
    IN IF hits = {} THEN None
       ELSE table[CHOOSE i \in hits : \A j \in hits : i <= j][2]

extract_city(t) == FirstListed(COLOMBIAN_CITIES, t)

extract_neighborhood(t) == FirstListed(MEDELLIN_NEIGHBORHOODS, t)

\* extract_city only ever yields a Colombian city, so the INTERNATIONAL_CITIES
\* lookup never hits and a foreign country comes from the text patterns
extract_event_country(t, primary_city) ==
    IF primary_city # None /\ \E i \in 1..Len(COLOMBIAN_CITIES) : COLOMBIAN_CITIES[i][2] = primary_city
    THEN "Colombia"
    ELSE IF Found("en qatar", t) THEN "Qatar"
    ELSE IF Found("qatar", t) THEN "Qatar"
    ELSE ""

detect_colombian_involvement(t) == Found("seleccion colombia", t)

\* a date phrase more than 30 days in the past is ignored
extract_event_date(t, today) ==
    IF t.eventDay = NoDay \/ t.eventDay < today - 30 THEN NoDay ELSE t.eventDay

extract_attendance(t) == IF t.attendance = 0 THEN NoAttendance ELSE t.attendance

calculate_scale(t) ==
    LET attendance == extract_attendance(t)
    IN IF attendance # NoAttendance
       THEN IF attendance < 500 THEN "small"
            ELSE IF attendance < 5000 THEN "medium"
            ELSE IF attendance < 50000 THEN "large"
            ELSE "massive"
       ELSE IF Found("masivo", t) THEN "massive"
       ELSE "medium"

extract_all(t, today, table) ==
    LET et == extract_event_type(t, table)
        city == extract_city(t)
    IN [event_type |-> et[1], event_subtype |-> et[2],
        city |-> city,
        neighborhood |-> extract_neighborhood(t),
        event_date |-> extract_event_date(t, today),
        attendance |-> extract_attendance(t),
        scale |-> calculate_scale(t),
        event_country |-> extract_event_country(t, city),
        colombian_involvement |-> detect_colombian_involvement(t),
        keywords |-> t.words]


---------------------------------------------------------------------------
(* BroadcastabilityCalculator (broadcastability_calculator.py) *)

\* BroadcastabilityConfig defaults; weights in hundredths, score in millionths
DefaultConfig ==
    [sport_appeal_weight |-> 35, competition_level_weight |-> 30,
     hype_indicators_weight |-> 20, attendance_weight |-> 15,
     min_broadcastability_score |-> 550000,
     attendance_small |-> 5000, attendance_medium |-> 20000, attendance_large |-> 50000]

\* SportType rows (seed): appeal in millionths
SportTypes ==
    << [code |-> "soccer", latin_america_appeal |-> 950000,
        keywords |-> {"futbol", "seleccion", "mundial"}],
       [code |-> "basketball", latin_america_appeal |-> 720000,
        keywords |-> {"final"}] >>

\* CompetitionLevel rows (seed): multiplier in tenths
CompetitionLevels ==
    << [code |-> "world_cup_final", sport_type |-> "soccer", broadcast_multiplier |-> 30,
        keywords |-> {"final"}],
       [code |-> "world_cup_match", sport_type |-> "soccer", broadcast_multiplier |-> 28,
        keywords |-> {"mundial", "qatar"}],
       [code |-> "world_cup_qualifier", sport_type |-> "soccer", broadcast_multiplier |-> 20,
        keywords |-> {"seleccion", "mundial"}],
       [code |-> "boxing_world_title_multi", sport_type |-> "combat_sports", broadcast_multiplier |-> 28,
        keywords |-> {"campeonato"}] >>

\* HypeIndicator rows (seed): boost in millionths
HypeIndicators ==
    << [pattern |-> "final", hype_boost |-> 300000, category |-> "finals"],
       [pattern |-> "masiv", hype_boost |-> 200000, category |-> "scale"] >>

Taxonomy ==
    [config |-> DefaultConfig, sport_types |-> SportTypes,
     competition_levels |-> CompetitionLevels, hype_indicators |-> HypeIndicators]

KeywordMatches(keywords, t) == Cardinality({k \in keywords : Found(k, t)})

\* returns <<appeal, code>>: the first sport with the strictly highest match count
_calculate_sport_appeal(t, tax) ==
    LET st == tax.sport_types
        hit == { i \in 1..Len(st) : KeywordMatches(st[i].keywords, t) > 0 }
    IN IF hit = {} THEN <<Unit \div 2, None>>
       ELSE LET b == CHOOSE i \in hit : \A j \in hit :
                        KeywordMatches(st[i].keywords, t) > KeywordMatches(st[j].keywords, t)
                        \/ (KeywordMatches(st[i].keywords, t) = KeywordMatches(st[j].keywords, t)
                            /\ i <= j)
            IN <<st[b].latin_america_appeal, st[b].code>>

\* returns <<normalized score, code>>; best_multiplier starts at 1.0 and only a
\* strictly higher multiplier replaces it
_calculate_competition_level(t, detected_sport, tax) ==
    LET cl == tax.competition_levels
        cand == { i \in 1..Len(cl) :
                    /\ ~(detected_sport # None /\ cl[i].sport_type # None
                         /\ cl[i].sport_type # detected_sport)
                    /\ KeywordMatches(cl[i].keywords, t) > 0
                    /\ cl[i].broadcast_multiplier > 10 }
    IN IF cand = {} THEN <<330000, None>>
       ELSE LET b == CHOOSE i \in cand : \A j \in cand :
                        cl[i].broadcast_multiplier > cl[j].broadcast_multiplier
                        \/ (cl[i].broadcast_multiplier = cl[j].broadcast_multiplier /\ i <= j)
            IN <<Min(Unit, (cl[b].broadcast_multiplier * Unit) \div 30), cl[b].code>>

\* an indicator whose pattern raises re.error is skipped (lines 249-258)
_calculate_hype_score(t, tax) ==
    LET hi == tax.hype_indicators
        hit == { i \in 1..Len(hi) : ~Malformed(hi[i].pattern) /\ Found(hi[i].pattern, t) }
    IN Min(Unit, SumOver(hit, [i \in hit |-> hi[i].hype_boost]))

\* the variant that follows the docstring: nothing below the small threshold
_calculate_attendance_score_docstring(attendance, cfg) ==
    IF attendance = NoAttendance \/ attendance <= 0 THEN 0
    ELSE IF attendance < cfg.attendance_small
         THEN 0
    ELSE IF attendance < cfg.attendance_medium
         THEN 200000 + ((attendance - cfg.attendance_small) * 300) \div
                       ((cfg.attendance_medium - cfg.attendance_small) \div 1000)
    ELSE IF attendance < cfg.attendance_large
         THEN 500000 + ((attendance - cfg.attendance_medium) * 300) \div
                       ((cfg.attendance_large - cfg.attendance_medium) \div 1000)
    ELSE Unit

_calculate_attendance_score(attendance, cfg) ==
    IF attendance = NoAttendance \/ attendance <= 0 THEN 0
    ELSE IF attendance < cfg.attendance_small
         THEN (attendance * 200000) \div cfg.attendance_small
    ELSE IF attendance < cfg.attendance_medium
         THEN 200000 + ((attendance - cfg.attendance_small) * 300) \div
                       ((cfg.attendance_medium - cfg.attendance_small) \div 1000)
    ELSE IF attendance < cfg.attendance_large
         THEN 500000 + ((attendance - cfg.attendance_medium) * 300) \div
                       ((cfg.attendance_large - cfg.attendance_medium) \div 1000)
    ELSE Unit

\* round(x, 3) on a value in millionths
Round3(x) == ((x + 500) \div 1000) * 1000

_zero_result ==
    [broadcastability_score |-> 0, hype_score |-> 0, is_broadcastable |-> FALSE,
     sport_type |-> None, competition_level |-> None]

\* the variant that scores every event type
calculate_any_type(t, event_type_detected, expected_attendance, tax) ==
    IF FALSE
    THEN _zero_result
    ELSE LET sa == _calculate_sport_appeal(t, tax)
             cs == _calculate_competition_level(t, sa[2], tax)
             hype == _calculate_hype_score(t, tax)
             att == _calculate_attendance_score(expected_attendance, tax.config)
             raw == (sa[1] * tax.config.sport_appeal_weight
                     + cs[1] * tax.config.competition_level_weight
                     + hype * tax.config.hype_indicators_weight
                     + att * tax.config.attendance_weight) \div 100
             broadcastability == Max(0, Min(Unit, raw))
         IN [broadcastability_score |-> Round3(broadcastability),
             hype_score |-> Round3(hype),
             is_broadcastable |-> broadcastability >= tax.config.min_broadcastability_score,
             sport_type |-> sa[2], competition_level |-> cs[2]]

\* the variant that returns the weighted sum as it is
calculate_unclipped(t, event_type_detected, expected_attendance, tax) ==
    IF event_type_detected \notin {"sports_match", "marathon", "tournament"}
    THEN _zero_result
    ELSE LET sa == _calculate_sport_appeal(t, tax)
             cs == _calculate_competition_level(t, sa[2], tax)
             hype == _calculate_hype_score(t, tax)
             att == _calculate_attendance_score(expected_attendance, tax.config)
             raw == (sa[1] * tax.config.sport_appeal_weight
                     + cs[1] * tax.config.competition_level_weight
                     + hype * tax.config.hype_indicators_weight
                     + att * tax.config.attendance_weight) \div 100
             broadcastability == raw
         IN [broadcastability_score |-> Round3(broadcastability),
             hype_score |-> Round3(hype),
             is_broadcastable |-> broadcastability >= tax.config.min_broadcastability_score,
             sport_type |-> sa[2], competition_level |-> cs[2]]

\* the variant that subtracts the hype component
calculate_hype_penalty(t, event_type_detected, expected_attendance, tax) ==
    IF event_type_detected \notin {"sports_match", "marathon", "tournament"}
    THEN _zero_result
    ELSE LET sa == _calculate_sport_appeal(t, tax)
             cs == _calculate_competition_level(t, sa[2], tax)
             hype == _calculate_hype_score(t, tax)
             att == _calculate_attendance_score(expected_attendance, tax.config)
             raw == (sa[1] * tax.config.sport_appeal_weight
                     + cs[1] * tax.config.competition_level_weight
                     - hype * tax.config.hype_indicators_weight
                     + att * tax.config.attendance_weight) \div 100
             broadcastability == Max(0, Min(Unit, raw))
         IN [broadcastability_score |-> Round3(broadcastability),
             hype_score |-> Round3(hype),
             is_broadcastable |-> broadcastability >= tax.config.min_broadcastability_score,
             sport_type |-> sa[2], competition_level |-> cs[2]]

\* calculate(article): reads the article's text, event_type_detected and expected_attendance
calculate(t, event_type_detected, expected_attendance, tax) ==
    IF event_type_detected \notin {"sports_match", "marathon", "tournament"}
    THEN _zero_result
    ELSE LET sa == _calculate_sport_appeal(t, tax)
             cs == _calculate_competition_level(t, sa[2], tax)
             hype == _calculate_hype_score(t, tax)
             att == _calculate_attendance_score(expected_attendance, tax.config)
             raw == (sa[1] * tax.config.sport_appeal_weight
                     + cs[1] * tax.config.competition_level_weight
                     + hype * tax.config.hype_indicators_weight
                     + att * tax.config.attendance_weight) \div 100
             broadcastability == Max(0, Min(Unit, raw))
         IN [broadcastability_score |-> Round3(broadcastability),
             hype_score |-> Round3(hype),
             is_broadcastable |-> broadcastability >= tax.config.min_broadcastability_score,
             sport_type |-> sa[2], competition_level |-> cs[2]]


---------------------------------------------------------------------------
(* PreFilter (ml_pipeline.py) *)

HIGH_RELEVANCE_CATEGORIES ==
    [food_event |-> 950000, festival |-> 900000, concert |-> 850000,
     sports_match |-> 850000, nightlife |-> 900000, cultural |-> 750000,
     marathon |-> 800000]

MEDIUM_RELEVANCE_CATEGORIES == [conference |-> 600000, exposition |-> 550000]

LOW_RELEVANCE_CATEGORIES ==
    [politics |-> 150000, international |-> 100000, conflict |-> 50000, crime |-> 100000]

\* the entries of the keyword lists that the vocabulary can hit
HOSPITALITY_KEYWORDS == {"cerveza", "bar", "pub", "brunch"}
NEGATIVE_KEYWORDS == {"homicidio", "robo"}
PAYWALL_PATTERNS == {"suscribete"}

NoBusiness == [id |-> 0]

\* the variant that scores a paywalled text like any other
calculate_suitability_no_paywall(a, t, event_type, business) ==
    LET paywall_detected == FALSE
        no_keywords == a.extracted_keywords = {}
        score_penalty == IF no_keywords /\ t.short THEN 300000 ELSE 0
        base == IF event_type = None THEN 0
                ELSE IF event_type \in DOMAIN HIGH_RELEVANCE_CATEGORIES
                     THEN HIGH_RELEVANCE_CATEGORIES[event_type]
                ELSE IF event_type \in DOMAIN MEDIUM_RELEVANCE_CATEGORIES
                     THEN MEDIUM_RELEVANCE_CATEGORIES[event_type]
                ELSE IF event_type \in DOMAIN LOW_RELEVANCE_CATEGORIES
                     THEN LOW_RELEVANCE_CATEGORIES[event_type]
                ELSE 400000
        foreign == a.event_country # "" /\ a.event_country # "Colombia"
        has_tv == business # NoBusiness /\ business.has_tv_screens
        sports == event_type \in {"sports_match", "tournament"}
        s1 == IF foreign THEN (base * 4) \div 10 ELSE base
        s2 == IF a.colombian_involvement /\ sports /\ has_tv THEN s1 + 200000 ELSE s1
        hospitality_matches == KeywordMatches(HOSPITALITY_KEYWORDS, t)
        s3 == s2 + Min(300000, hospitality_matches * 100000)
        negative_matches == KeywordMatches(NEGATIVE_KEYWORDS, t)
        s4 == s3 - negative_matches * 500000 - score_penalty
    IN IF paywall_detected THEN 0
       ELSE IF foreign /\ ~a.colombian_involvement
            THEN IF a.is_broadcastable /\ has_tv
                 THEN (a.broadcastability_score * 3) \div 4
                 ELSE 0
       ELSE IF foreign /\ business # NoBusiness /\ sports /\ ~business.has_tv_screens
            THEN 0
       ELSE Max(0, Min(Unit, s4))

\* the variant that scores a foreign event by its stored broadcast score
\* whether or not it was found broadcastable
calculate_suitability_any_foreign(a, t, event_type, business) ==
    LET paywall_detected == \E p \in PAYWALL_PATTERNS : Found(p, t)
        no_keywords == a.extracted_keywords = {}
        score_penalty == IF no_keywords /\ t.short THEN 300000 ELSE 0
        base == IF event_type = None THEN 0
                ELSE IF event_type \in DOMAIN HIGH_RELEVANCE_CATEGORIES
                     THEN HIGH_RELEVANCE_CATEGORIES[event_type]
                ELSE IF event_type \in DOMAIN MEDIUM_RELEVANCE_CATEGORIES
                     THEN MEDIUM_RELEVANCE_CATEGORIES[event_type]
                ELSE IF event_type \in DOMAIN LOW_RELEVANCE_CATEGORIES
                     THEN LOW_RELEVANCE_CATEGORIES[event_type]
                ELSE 400000
        foreign == a.event_country # "" /\ a.event_country # "Colombia"
        has_tv == business # NoBusiness /\ business.has_tv_screens
        sports == event_type \in {"sports_match", "tournament"}
        s1 == IF foreign THEN (base * 4) \div 10 ELSE base
        s2 == IF a.colombian_involvement /\ sports /\ has_tv THEN s1 + 200000 ELSE s1
        hospitality_matches == KeywordMatches(HOSPITALITY_KEYWORDS, t)
        s3 == s2 + Min(300000, hospitality_matches * 100000)
        negative_matches == KeywordMatches(NEGATIVE_KEYWORDS, t)
        s4 == s3 - negative_matches * 500000 - score_penalty
    IN IF paywall_detected THEN 0
       ELSE IF foreign /\ ~a.colombian_involvement
            THEN IF has_tv
                 THEN (a.broadcastability_score * 3) \div 4
                 ELSE 0
       ELSE IF foreign /\ business # NoBusiness /\ sports /\ ~business.has_tv_screens
            THEN 0
       ELSE Max(0, Min(Unit, s4))

\* the variant that keeps the full base score of a foreign event
calculate_suitability_no_penalty(a, t, event_type, business) ==
    LET paywall_detected == \E p \in PAYWALL_PATTERNS : Found(p, t)
        no_keywords == a.extracted_keywords = {}
        score_penalty == IF no_keywords /\ t.short THEN 300000 ELSE 0
        base == IF event_type = None THEN 0
                ELSE IF event_type \in DOMAIN HIGH_RELEVANCE_CATEGORIES
                     THEN HIGH_RELEVANCE_CATEGORIES[event_type]
                ELSE IF event_type \in DOMAIN MEDIUM_RELEVANCE_CATEGORIES
                     THEN MEDIUM_RELEVANCE_CATEGORIES[event_type]
                ELSE IF event_type \in DOMAIN LOW_RELEVANCE_CATEGORIES
                     THEN LOW_RELEVANCE_CATEGORIES[event_type]
                ELSE 400000
        foreign == a.event_country # "" /\ a.event_country # "Colombia"
        has_tv == business # NoBusiness /\ business.has_tv_screens
        sports == event_type \in {"sports_match", "tournament"}
        s1 == base
        s2 == IF a.colombian_involvement /\ sports /\ has_tv THEN s1 + 200000 ELSE s1
        hospitality_matches == KeywordMatches(HOSPITALITY_KEYWORDS, t)
        s3 == s2 + Min(300000, hospitality_matches * 100000)
        negative_matches == KeywordMatches(NEGATIVE_KEYWORDS, t)
        s4 == s3 - negative_matches * 500000 - score_penalty
    IN IF paywall_detected THEN 0
       ELSE IF foreign /\ ~a.colombian_involvement
            THEN IF a.is_broadcastable /\ has_tv
                 THEN (a.broadcastability_score * 3) \div 4
                 ELSE 0
       ELSE IF foreign /\ business # NoBusiness /\ sports /\ ~business.has_tv_screens
            THEN 0
       ELSE Max(0, Min(Unit, s4))

\* a is the in-memory article: its feature fields are this run's, while
\* is_broadcastable and broadcastability_score are whatever the row held
calculate_suitability(a, t, event_type, business) ==
    LET paywall_detected == \E p \in PAYWALL_PATTERNS : Found(p, t)
        no_keywords == a.extracted_keywords = {}
        score_penalty == IF no_keywords /\ t.short THEN 300000 ELSE 0
        base == IF event_type = None THEN 0
                ELSE IF event_type \in DOMAIN HIGH_RELEVANCE_CATEGORIES
                     THEN HIGH_RELEVANCE_CATEGORIES[event_type]
                ELSE IF event_type \in DOMAIN MEDIUM_RELEVANCE_CATEGORIES
                     THEN MEDIUM_RELEVANCE_CATEGORIES[event_type]
                ELSE IF event_type \in DOMAIN LOW_RELEVANCE_CATEGORIES
                     THEN LOW_RELEVANCE_CATEGORIES[event_type]
                ELSE 400000
        foreign == a.event_country # "" /\ a.event_country # "Colombia"
        has_tv == business # NoBusiness /\ business.has_tv_screens
        sports == event_type \in {"sports_match", "tournament"}
        s1 == IF foreign THEN (base * 4) \div 10 ELSE base
        s2 == IF a.colombian_involvement /\ sports /\ has_tv THEN s1 + 200000 ELSE s1
        hospitality_matches == KeywordMatches(HOSPITALITY_KEYWORDS, t)
        s3 == s2 + Min(300000, hospitality_matches * 100000)
        negative_matches == KeywordMatches(NEGATIVE_KEYWORDS, t)
        s4 == s3 - negative_matches * 500000 - score_penalty
    IN IF paywall_detected THEN 0
       ELSE IF foreign /\ ~a.colombian_involvement
            THEN IF a.is_broadcastable /\ has_tv
                 THEN (a.broadcastability_score * 3) \div 4
                 ELSE 0
       ELSE IF foreign /\ business # NoBusiness /\ sports /\ ~business.has_tv_screens
            THEN 0
       ELSE Max(0, Min(Unit, s4))

---------------------------------------------------------------------------
(* GeographicMatcher (ml_pipeline.py) *)

\* city.lower() with the accented vowels replaced
_normalize_city(city) ==
    CASE city = "Medellín" -> "medellin"
      [] city = "Bogotá" -> "bogota"
      [] OTHER -> city

\* Business.get_city_display(): CITIES choice -> label
get_city_display(business) ==
    CASE business.city = "medellin" -> "Medellín"
      [] business.city = "bogota" -> "Bogotá"
      [] OTHER -> business.city

\* the variant that lets large national events through for every business
is_relevant_any_national(a, business) ==
    IF a.event_country = "Colombia" /\ a.primary_city # ""
       /\ ( _normalize_city(a.primary_city) = _normalize_city(get_city_display(business))
            \/ a.event_scale \in {"massive", "large"} )
    THEN TRUE
    ELSE IF a.event_country # "" /\ a.event_country # "Colombia"
         THEN a.colombian_involvement /\ business.has_tv_screens
              /\ a.event_type_detected \in {"sports_match", "tournament", "awards", "festival"}
    ELSE IF a.primary_city = "" /\ a.event_country = ""
         THEN a.event_scale = "massive" /\ business.include_national_events
    ELSE FALSE

\* the variant that lets foreign events with Colombian involvement through
\* for businesses without screens
is_relevant_no_screens(a, business) ==
    IF a.event_country = "Colombia" /\ a.primary_city # ""
       /\ ( _normalize_city(a.primary_city) = _normalize_city(get_city_display(business))
            \/ (business.include_national_events /\ a.event_scale \in {"massive", "large"}) )
    THEN TRUE
    ELSE IF a.event_country # "" /\ a.event_country # "Colombia"
         THEN a.colombian_involvement
              /\ a.event_type_detected \in {"sports_match", "tournament", "awards", "festival"}
    ELSE IF a.primary_city = "" /\ a.event_country = ""
         THEN a.event_scale = "massive" /\ business.include_national_events
    ELSE FALSE

is_relevant(a, business) ==
    IF a.event_country = "Colombia" /\ a.primary_city # ""
       /\ ( _normalize_city(a.primary_city) = _normalize_city(get_city_display(business))
            \/ (business.include_national_events /\ a.event_scale \in {"massive", "large"}) )
    THEN TRUE
    ELSE IF a.event_country # "" /\ a.event_country # "Colombia"
         THEN a.colombian_involvement /\ business.has_tv_screens
              /\ a.event_type_detected \in {"sports_match", "tournament", "awards", "festival"}
    ELSE IF a.primary_city = "" /\ a.event_country = ""
         THEN a.event_scale = "massive" /\ business.include_national_events
    ELSE FALSE

---------------------------------------------------------------------------
(* BusinessMatcher (ml_pipeline.py) *)

\* BusinessTypeKeyword rows (seed migration 0005) that the vocabulary can hit
BusinessTypeKeywords ==
    { [business_type |-> "pub", keyword |-> "cerveza", weight |-> 200000, is_active |-> TRUE],
      [business_type |-> "pub", keyword |-> "futbol", weight |-> 200000, is_active |-> TRUE],
      [business_type |-> "pub", keyword |-> "seleccion", weight |-> 150000, is_active |-> TRUE],
      [business_type |-> "pub", keyword |-> "mundial", weight |-> 150000, is_active |-> TRUE],
      [business_type |-> "pub", keyword |-> "concierto", weight |-> 150000, is_active |-> TRUE],
      [business_type |-> "bookstore", keyword |-> "libro", weight |-> 200000, is_active |-> TRUE] }

calculate_relevance(a, t, business) ==
    LET base == (a.business_suitability_score * 3) \div 10
        custom == { k \in business.keywords : ~k.is_negative /\ Found(k.keyword, t) }
        type_keywords == { k \in BusinessTypeKeywords :
                             k.business_type = business.business_type /\ k.is_active
                             /\ Found(k.keyword, t) }
        scale_bonus == CASE a.event_scale = "massive" -> 200000
                         [] a.event_scale = "large" -> 150000
                         [] a.event_scale = "medium" -> 50000
                         [] OTHER -> 0
        proximity == IF a.neighborhood # "" /\ business.neighborhood # ""
                        /\ a.neighborhood = business.neighborhood
                     THEN 300000 ELSE 0
    IN Min(Unit, base + SumOver(custom, [k \in custom |-> (k.weight * 2) \div 10])
                 + SumOver(type_keywords, [k \in type_keywords |-> k.weight])
                 + scale_bonus + proximity)

---------------------------------------------------------------------------
(* RecommendationGenerator (ml_pipeline.py) *)

TEMPLATES ==
  "sports_match" :> [business_types |-> {"pub", "restaurant", "coffee_shop"},
    templates |-> <<
      [action_type |-> "increase_inventory", category |-> "inventory", estimated_hours |-> 6, days_threshold |-> 7,
       priority_by_scale |-> [massive |-> "urgent", large |-> "urgent", medium |-> "high", small |-> "medium"]],
      [action_type |-> "create_promotion", category |-> "marketing", estimated_hours |-> 12, days_threshold |-> 14,
       priority_by_scale |-> [massive |-> "urgent", large |-> "high", medium |-> "medium", small |-> "low"]],
      [action_type |-> "hire_staff", category |-> "staffing", estimated_hours |-> 8, days_threshold |-> 10,
       priority_by_scale |-> [massive |-> "urgent", large |-> "high", medium |-> "medium", small |-> "low"]] >>] @@
  "concert" :> [business_types |-> {"pub", "restaurant", "coffee_shop"},
    templates |-> <<
      [action_type |-> "create_promotion", category |-> "marketing", estimated_hours |-> 8, days_threshold |-> 14,
       priority_by_scale |-> [massive |-> "high", large |-> "high", medium |-> "medium", small |-> "low"]],
      [action_type |-> "adjust_hours", category |-> "operations", estimated_hours |-> 2, days_threshold |-> 7,
       priority_by_scale |-> [massive |-> "high", large |-> "medium", medium |-> "medium", small |-> "low"]],
      [action_type |-> "increase_inventory", category |-> "inventory", estimated_hours |-> 4, days_threshold |-> 5,
       priority_by_scale |-> [massive |-> "urgent", large |-> "high", medium |-> "medium", small |-> "low"]] >>] @@
  "marathon" :> [business_types |-> {"coffee_shop", "restaurant", "pub"},
    templates |-> <<
      [action_type |-> "increase_inventory", category |-> "inventory", estimated_hours |-> 4, days_threshold |-> 5,
       priority_by_scale |-> [massive |-> "urgent", large |-> "high", medium |-> "medium", small |-> "low"]],
      [action_type |-> "menu_modification", category |-> "operations", estimated_hours |-> 8, days_threshold |-> 7,
       priority_by_scale |-> [massive |-> "high", large |-> "medium", medium |-> "medium", small |-> "low"]],
      [action_type |-> "adjust_hours", category |-> "operations", estimated_hours |-> 2, days_threshold |-> 5,
       priority_by_scale |-> [massive |-> "high", large |-> "medium", medium |-> "low", small |-> "low"]] >>] @@
  "festival" :> [business_types |-> {"pub", "restaurant", "coffee_shop", "bookstore"},
    templates |-> <<
      [action_type |-> "increase_inventory", category |-> "inventory", estimated_hours |-> 8, days_threshold |-> 7,
       priority_by_scale |-> [massive |-> "urgent", large |-> "urgent", medium |-> "high", small |-> "medium"]],
      [action_type |-> "create_promotion", category |-> "marketing", estimated_hours |-> 10, days_threshold |-> 14,
       priority_by_scale |-> [massive |-> "high", large |-> "high", medium |-> "medium", small |-> "low"]],
      [action_type |-> "hire_staff", category |-> "staffing", estimated_hours |-> 8, days_threshold |-> 10,
       priority_by_scale |-> [massive |-> "urgent", large |-> "high", medium |-> "medium", small |-> "low"]] >>] @@
  "food_event" :> [business_types |-> {"restaurant", "coffee_shop", "pub"},
    templates |-> <<
      [action_type |-> "partner_collaboration", category |-> "partnerships", estimated_hours |-> 20, days_threshold |-> 30,
       priority_by_scale |-> [massive |-> "medium", large |-> "medium", medium |-> "low", small |-> "low"]],
      [action_type |-> "menu_modification", category |-> "operations", estimated_hours |-> 6, days_threshold |-> 60,
       priority_by_scale |-> [massive |-> "low", large |-> "low", medium |-> "low", small |-> "low"]],
      [action_type |-> "social_campaign", category |-> "marketing", estimated_hours |-> 4, days_threshold |-> 14,
       priority_by_scale |-> [massive |-> "medium", large |-> "low", medium |-> "low", small |-> "low"]] >>] @@
  "cultural" :> [business_types |-> {"coffee_shop", "restaurant", "bookstore"},
    templates |-> <<
      [action_type |-> "create_promotion", category |-> "marketing", estimated_hours |-> 6, days_threshold |-> 14,
       priority_by_scale |-> [massive |-> "high", large |-> "medium", medium |-> "medium", small |-> "low"]],
      [action_type |-> "adjust_hours", category |-> "operations", estimated_hours |-> 2, days_threshold |-> 7,
       priority_by_scale |-> [massive |-> "medium", large |-> "medium", medium |-> "low", small |-> "low"]] >>] @@
  "nightlife" :> [business_types |-> {"pub", "restaurant"},
    templates |-> <<
      [action_type |-> "increase_inventory", category |-> "inventory", estimated_hours |-> 4, days_threshold |-> 5,
       priority_by_scale |-> [massive |-> "urgent", large |-> "high", medium |-> "medium", small |-> "low"]],
      [action_type |-> "hire_staff", category |-> "staffing", estimated_hours |-> 6, days_threshold |-> 7,
       priority_by_scale |-> [massive |-> "urgent", large |-> "high", medium |-> "medium", small |-> "low"]] >>] @@
  "conference" :> [business_types |-> {"coffee_shop", "restaurant"},
    templates |-> <<
      [action_type |-> "create_promotion", category |-> "marketing", estimated_hours |-> 8, days_threshold |-> 14,
       priority_by_scale |-> [massive |-> "high", large |-> "medium", medium |-> "medium", small |-> "low"]],
      [action_type |-> "increase_inventory", category |-> "inventory", estimated_hours |-> 6, days_threshold |-> 7,
       priority_by_scale |-> [massive |-> "high", large |-> "medium", medium |-> "low", small |-> "low"]] >>] @@
  "exposition" :> [business_types |-> {"coffee_shop", "restaurant", "bookstore"},
    templates |-> <<
      [action_type |-> "create_promotion", category |-> "marketing", estimated_hours |-> 6, days_threshold |-> 14,
       priority_by_scale |-> [massive |-> "medium", large |-> "medium", medium |-> "low", small |-> "low"]] >>]

\* rows of the Recommendation table for one (article, business) pair (lines 703-707)
existing_recs(rows, business) == { r \in rows : r.business = business.id }

\* the template passes the days_threshold check (lines 724-727)
WithinThreshold(template, days_until_event) ==
    days_until_event = NoDays \/ days_until_event <= template.days_threshold

\* priority for the scale, raised one level when the event is at most 2 days away
PriorityOf(template, event_scale, days_until_event) ==
    LET priority == template.priority_by_scale[event_scale]
    IN IF days_until_event # NoDays /\ days_until_event <= 2
       THEN IF priority = "high" THEN "urgent"
            ELSE IF priority = "medium" THEN "high"
            ELSE priority
       ELSE priority

\* generate passes the two early returns (lines 687-694) and reaches the delete
ReachesDelete(a, business) ==
    /\ a.event_type_detected # ""
    /\ a.event_type_detected \in DOMAIN TEMPLATES
    /\ business.business_type \in TEMPLATES[a.event_type_detected].business_types

\* the Recommendation objects generate returns; run tags the call that built them
generate(a, business, relevance_score, today, run) ==
    IF ~ReachesDelete(a, business) THEN {}
    ELSE LET templates == TEMPLATES[a.event_type_detected].templates
             days_until_event == IF a.event_start_datetime = NoDay THEN NoDays
                                 ELSE Max(0, a.event_start_datetime - today)
             event_scale == IF a.event_scale = "" THEN "medium" ELSE a.event_scale
         IN { [business |-> business.id, template |-> i,
               action_type |-> templates[i].action_type,
               category |-> templates[i].category,
               priority |-> PriorityOf(templates[i], event_scale, days_until_event),
               confidence_score |-> relevance_score,
               run |-> run]
              : i \in { j \in 1..Min(3, Len(templates)) :
                          WithinThreshold(templates[j], days_until_event) } }


---------------------------------------------------------------------------
(* MLOrchestrator.process_article (ml_pipeline.py) *)

\* a NewsArticle row as the crawler creates it: model defaults
DefaultArticle ==
    [event_type_detected |-> "", event_subtype |-> "", primary_city |-> "",
     neighborhood |-> "", event_start_datetime |-> NoDay,
     expected_attendance |-> NoAttendance, event_scale |-> "", event_country |-> "",
     colombian_involvement |-> FALSE, extracted_keywords |-> {},
     sport_type |-> "", competition_level |-> "",
     category |-> None, subcategory |-> None,
     business_suitability_score |-> 0, features_extracted |-> FALSE,
     processing_error |-> "", llm_features_extracted |-> FALSE,
     broadcastability_score |-> 0, hype_score |-> 0, is_broadcastable |-> FALSE,
     business_relevance_score |-> 0 - Unit]

category_map ==
    [sports_match |-> <<"deportes", "futbol">>, marathon |-> <<"deportes", "atletismo">>,
     concert |-> <<"entretenimiento", "musica">>, festival |-> <<"eventos", "festival">>,
     conference |-> <<"negocios", "conferencia">>, exposition |-> <<"cultura", "exposicion">>,
     food_event |-> <<"gastronomia", "festival-gastronomico">>,
     cultural |-> <<"cultura", "evento-cultural">>,
     nightlife |-> <<"entretenimiento", "vida-nocturna">>,
     politics |-> <<"comunidad", "politica">>, international |-> <<"comunidad", "internacional">>,
     conflict |-> <<"comunidad", "seguridad">>, crime |-> <<"comunidad", "seguridad">>]

\* behaviours of LLMExtractor.extract_all as process_article meets them:
\* switched off (returns None), raising, returning None, returning features
LLMOutcomes == {"disabled", "raise", "none", "ok"}

\* the variant in which a failed call still hands back features
llm_extract_all_partial(llm) ==
    [usable |-> llm # "disabled", sport_type |-> "soccer",
     competition_level |-> "world_cup_final"]

\* llm_features: the sport fields of a usable answer, usable = FALSE for None
llm_extract_all(llm) ==
    IF llm = "ok"
    THEN [usable |-> TRUE, sport_type |-> "soccer", competition_level |-> "world_cup_final"]
    ELSE [usable |-> FALSE, sport_type |-> "", competition_level |-> ""]

\* where a call raises: nowhere, in extract_all (line 913), in calculate_suitability
\* (line 959), in the broadcastability calculation (line 1018, caught at line 1035),
\* in the matching loop (lines 1058-1070), or in the k-th generate call after its
\* delete (line 715)
Faults ==
    { [at |-> s, k |-> 1] : s \in {"none", "extract", "suitability", "broadcast", "match"} }
    \cup { [at |-> "generate", k |-> k] : k \in 1..NumBusinesses }

\* lines 915-954: the in-memory article after the features are assigned
AssignFeatures(a, features) ==
    LET et == IF features.event_type = None THEN "" ELSE features.event_type
    IN [a EXCEPT
          !.event_type_detected = et,
          !.event_subtype = IF features.event_subtype = None THEN "" ELSE features.event_subtype,
          !.primary_city = IF features.city = None THEN "" ELSE features.city,
          !.neighborhood = IF features.neighborhood = None THEN "" ELSE features.neighborhood,
          !.event_start_datetime = features.event_date,
          !.expected_attendance = features.attendance,
          !.event_scale = features.scale,
          !.event_country = features.event_country,
          !.colombian_involvement = features.colombian_involvement,
          !.extracted_keywords = features.keywords,
          !.sport_type = "",
          !.competition_level = "",
          !.category = IF et = "" THEN a.category
                       ELSE IF et \in DOMAIN category_map THEN category_map[et][1]
                       ELSE "comunidad",
          !.subcategory = IF et = "" THEN a.subcategory
                          ELSE IF et \in DOMAIN category_map THEN category_map[et][2]
                          ELSE "otros"]

\* lines 1010-1014: the LLM's sport fields replace the extractor's
AssignLLMSport(a, llm_features) ==
    IF llm_features.usable
    THEN [a EXCEPT
            !.llm_features_extracted = TRUE,
            !.sport_type = IF llm_features.sport_type # ""
                           THEN llm_features.sport_type ELSE a.sport_type,
            !.competition_level = IF llm_features.competition_level # ""
                                  THEN llm_features.competition_level
                                  ELSE a.competition_level]
    ELSE a

\* lines 1017-1040: the calculator's result r is stored, or zeros when it raised
StoreBroadcast(a, r, failed) ==
    IF failed
    THEN [a EXCEPT !.broadcastability_score = 0, !.hype_score = 0, !.is_broadcastable = FALSE]
    ELSE [a EXCEPT
            !.broadcastability_score = r.broadcastability_score,
            !.hype_score = r.hype_score,
            !.is_broadcastable = r.is_broadcastable,
            !.sport_type = IF r.sport_type # None THEN r.sport_type ELSE a.sport_type,
            !.competition_level = IF r.competition_level # None THEN r.competition_level
                                  ELSE a.competition_level]

AssignBroadcast(a, t, tax, failed) ==
    StoreBroadcast(a, calculate(t, a.event_type_detected, a.expected_attendance, tax),
                   failed)

\* Business.objects.filter(is_active=True) in Meta.ordering ('-created_at'): newest first
ActiveIds(bizs) ==
    SelectSeq([i \in 1..NumBusinesses |-> NumBusinesses + 1 - i], LAMBDA b : bizs[b].is_active)

SeqRange(q) == { q[i] : i \in 1..Len(q) }

\* what a call did, for the record: nothing yet
NoTrace == [llm_invoked |-> FALSE, gated |-> {}, scored |-> {}, matching |-> {}, created |-> {}]

\* the except clause (lines 1099-1107): with save the in-memory article mem is
\* saved with the error message, and a result is returned; nothing is re-raised
ExceptClause(mem, c, rows, obs) ==
    [article |-> IF c.save THEN [mem EXCEPT !.processing_error = "error"] ELSE c.stored,
     recs |-> rows, success |-> FALSE, processed |-> FALSE,
     excepted |-> TRUE, raised |-> FALSE,
     llm_invoked |-> obs.llm_invoked, gated |-> obs.gated, scored |-> obs.scored,
     matching |-> obs.matching, created |-> obs.created]

RECURSIVE GenerateAll(_, _, _, _, _, _)
\* Step 5 (lines 1080-1086) from the k-th matching business on
GenerateAll(matching, k, rows, created, mem, c) ==
    IF k > Len(matching)
    THEN [recs |-> rows, created |-> created, excepted |-> FALSE]
    ELSE IF ~ReachesDelete(mem, c.bizs[matching[k][1]])
         THEN GenerateAll(matching, k + 1, rows, created, mem, c)
    ELSE IF c.fault.at = "generate" /\ c.fault.k = k
         THEN [recs |-> rows \ existing_recs(rows, c.bizs[matching[k][1]]),
               created |-> created, excepted |-> TRUE]
    ELSE IF ~c.save
         THEN GenerateAll(matching, k + 1, rows \ existing_recs(rows, c.bizs[matching[k][1]]),
                          created, mem, c)
    ELSE GenerateAll(matching, k + 1,
                     (rows \ existing_recs(rows, c.bizs[matching[k][1]]))
                        \cup generate(mem, c.bizs[matching[k][1]], matching[k][2], c.today, c.run),
                     created
                        \cup generate(mem, c.bizs[matching[k][1]], matching[k][2], c.today, c.run),
                     mem, c)

\* the variant that sends every article on to matching
SuitableAlways(score) == TRUE

\* the suitability threshold of lines 977 and 1046
Suitable(score) == score >= 300000

\* line 977: the LLM is called when the suitability reaches the threshold
LLMInvoked(a) == Suitable(a.business_suitability_score)

\* features['event_type'] as calculate_suitability receives it
DetectedType(a) == IF a.event_type_detected = "" THEN None ELSE a.event_type_detected

\* lines 956-969 on the article a with this run's features assigned
CalculateSuitability(a, c) ==
    [a EXCEPT
       !.business_suitability_score = calculate_suitability(a, c.t, DetectedType(a), c.bizs[1]),
       !.features_extracted = TRUE,
       !.processing_error = ""]

\* lines 975-1006: llm_features, None unless the LLM is called and answers
LLMFeatures(a, c) ==
    IF LLMInvoked(a) THEN llm_extract_all(c.llm)
    ELSE [usable |-> FALSE, sport_type |-> "", competition_level |-> ""]

\* the variant that scores every active business
Eligible_ungated(a, bizs) == ActiveIds(bizs)

\* lines 1058-1062: the active businesses that pass the geographic gate, in order
Eligible(a, bizs) == SelectSeq(ActiveIds(bizs), LAMBDA b : is_relevant(a, bizs[b]))

Relevances(a, t, bizs, eligible) ==
    [b \in SeqRange(eligible) |-> calculate_relevance(a, t, bizs[b])]

\* lines 1056, 1065-1066: the highest relevance found, 0.0 when none is above it
MaxRelevance(relevance) ==
    IF DOMAIN relevance = {} THEN 0
    ELSE Max(0, relevance[CHOOSE b \in DOMAIN relevance :
                            \A d \in DOMAIN relevance : relevance[b] >= relevance[d]])

\* lines 1069-1070: matching_businesses as <<business id, relevance>> pairs
MatchingBusinesses(eligible, relevance) ==
    [i \in 1..Len(SelectSeq(eligible, LAMBDA b : relevance[b] > 400000)) |->
        << SelectSeq(eligible, LAMBDA b : relevance[b] > 400000)[i],
           relevance[SelectSeq(eligible, LAMBDA b : relevance[b] > 400000)[i]] >>]

\* lines 1088-1107: the return after Step 5, g being the outcome of the generation
Return(a, c, matching, g, obs) ==
    IF g.excepted
    THEN ExceptClause(a, c, g.recs, [obs EXCEPT !.created = g.created])
    ELSE [article |-> IF c.save THEN a ELSE c.stored, recs |-> g.recs,
          success |-> TRUE, processed |-> TRUE, excepted |-> FALSE, raised |-> FALSE,
          llm_invoked |-> obs.llm_invoked, gated |-> obs.gated, scored |-> obs.scored,
          matching |-> obs.matching, created |-> g.created]

\* lines 1072-1086 with the relevance of every eligible business at hand
GenerateRecommendations(a, c, matching, obs) ==
    Return(a, c, matching, GenerateAll(matching, 1, c.rows, {}, a, c), obs)

MatchScored(a, c, eligible, relevance) ==
    GenerateRecommendations(
        [a EXCEPT !.business_relevance_score = MaxRelevance(relevance)], c,
        MatchingBusinesses(eligible, relevance),
        [llm_invoked |-> LLMInvoked(a), gated |-> SeqRange(ActiveIds(c.bizs)),
         scored |-> SeqRange(eligible),
         matching |-> { b \in SeqRange(eligible) : relevance[b] > 400000 },
         created |-> {}])

MatchEligible(a, c, eligible) == MatchScored(a, c, eligible, Relevances(a, c.t, c.bizs, eligible))

\* lines 1042-1107 on the in-memory article a after Step 2.6
AfterSave(a, c) ==
    IF ~Suitable(a.business_suitability_score)
    THEN [article |-> IF c.save THEN a ELSE c.stored, recs |-> c.rows,
          success |-> TRUE, processed |-> FALSE, excepted |-> FALSE, raised |-> FALSE,
          llm_invoked |-> LLMInvoked(a), gated |-> {}, scored |-> {}, matching |-> {},
          created |-> {}]
    ELSE IF c.fault.at = "match"
         THEN ExceptClause(a, c, c.rows, [NoTrace EXCEPT !.llm_invoked = LLMInvoked(a)])
    ELSE MatchEligible(a, c, Eligible(a, c.bizs))

\* lines 975-1107 on the article a with its suitability stored
AfterSuitability(a, c) ==
    AfterSave(AssignBroadcast(AssignLLMSport(a, LLMFeatures(a, c)), c.t, c.tax,
                              c.fault.at = "broadcast"), c)

\* lines 956-1107 on the article a with this run's features assigned
AfterExtract(a, c) ==
    IF c.fault.at = "suitability" THEN ExceptClause(a, c, c.rows, NoTrace)
    ELSE AfterSuitability(CalculateSuitability(a, c), c)

\* process_article(article, save) with the call's context c
ProcessArticle(c) ==
    IF c.fault.at = "extract" \/ extract_event_type_raises(c.t, c.table)
    THEN ExceptClause(c.stored, c, c.rows, NoTrace)
    ELSE AfterExtract(AssignFeatures(c.stored, extract_all(c.t, c.today, c.table)), c)

\* process_article(article, save) on the stored row `stored` and the table `rows`,
\* with the seed taxonomy
process_article(stored, rows, bizs, t, today, save, llm, fault, run) ==
    ProcessArticle([stored |-> stored, rows |-> rows, bizs |-> bizs, t |-> t, today |-> today,
                    save |-> save, llm |-> llm, fault |-> fault, run |-> run,
                    table |-> ExtractionPatternTable, tax |-> Taxonomy])

---------------------------------------------------------------------------
(* The deployment: one article, the businesses, the callers of the pipeline *)

\* business 1 (the primary business of line 958) is a pub with screens in
\* El Poblado, Medellin; the others are pubs in Bogota
InitialBusinesses ==
    [b \in 1..NumBusinesses |->
        [id |-> b, is_active |-> TRUE, business_type |-> "pub",
         city |-> IF b = 1 THEN "medellin" ELSE "bogota",
         neighborhood |-> IF b = 1 THEN "El Poblado" ELSE "",
         include_national_events |-> FALSE,
         has_tv_screens |-> (b = 1),
         keywords |-> {}]]

NoFault == [at |-> "none", k |-> 1]

NoRun ==
    [run |-> 0, caller |-> "none", save |-> FALSE, llm |-> "disabled", fault |-> NoFault,
     businesses |-> InitialBusinesses, now |-> 0,
     before_article |-> DefaultArticle, before_recs |-> {},
     success |-> FALSE, processed |-> FALSE, excepted |-> FALSE, raised |-> FALSE,
     llm_invoked |-> FALSE, gated |-> {}, scored |-> {}, matching |-> {}, created |-> {}]

IdleTask == [status |-> "idle", retries |-> 0]

Workers == {1, 2}

IdleTxn == [pc |-> "idle", mem |-> DefaultArticle, run |-> 0, deleted |-> {}, inserted |-> {}]

NoCall == [fn |-> None]

NoGeo == [a |-> DefaultArticle, business |-> InitialBusinesses[1], applied |-> FALSE,
          result |-> FALSE]

Init ==
    /\ text \in Texts
    /\ settings \in [LLM_EXTRACTION_ENABLED : BOOLEAN]
    /\ article = DefaultArticle
    /\ businesses = InitialBusinesses
    /\ recs = {}
    /\ now = 0
    /\ nruns = 0
    /\ nedits = 0
    /\ last = NoRun
    /\ repeat = FALSE
    /\ task = IdleTask
    /\ txn = [w \in Workers |-> IdleTxn]
    /\ geo = NoGeo
    /\ call = NoCall
    /\ config = DefaultConfig

\* the LLM service is up and answers, when the setting enables it
Healthy == [llm |-> IF settings.LLM_EXTRACTION_ENABLED THEN "ok" ELSE "disabled", fault |-> NoFault]

\* what can go wrong in one call: the enabled LLM raises or returns nothing,
\* or one of the pipeline's own calls raises
Outcomes ==
    IF settings.LLM_EXTRACTION_ENABLED
    THEN { [llm |-> l, fault |-> NoFault] : l \in LLMOutcomes \ {"disabled"} }
         \cup { [llm |-> "ok", fault |-> f] : f \in Faults }
    ELSE { [llm |-> "disabled", fault |-> f] : f \in Faults }

\* a fault is drawn only at a point the call reaches, and a failure of the
\* LLM only when the LLM is called
Reached(r, o) ==
    /\ (o.fault.at # "none" => r.excepted \/ o.fault.at = "broadcast")
    /\ (o.llm \in {"raise", "none"} => r.llm_invoked)

\* the bookkeeping of one call by `caller` that returned r
Record(caller, save, o, r) ==
    /\ Reached(r, o)
    /\ article' = r.article
    /\ recs' = r.recs
    /\ nruns' = nruns + 1
    /\ last' = [run |-> nruns + 1, caller |-> caller, save |-> save, llm |-> o.llm,
                fault |-> o.fault, businesses |-> businesses, now |-> now,
                before_article |-> article, before_recs |-> recs,
                success |-> r.success, processed |-> r.processed,
                excepted |-> r.excepted, raised |-> r.raised,
                llm_invoked |-> r.llm_invoked, gated |-> r.gated, scored |-> r.scored,
                matching |-> r.matching, created |-> r.created]
    /\ repeat' = ( /\ last.run > 0 /\ last.save /\ save
                   /\ last.success /\ ~last.excepted
                   /\ last.fault = NoFault /\ o.fault = NoFault
                   /\ last.llm = o.llm
                   /\ last.businesses = businesses /\ last.now = now )

\* one call process_article(article, save) by `caller`
Call(caller, save, o) ==
    /\ nruns < MaxRuns
    /\ Record(caller, save, o,
              process_article(article, recs, businesses, text, now, save, o.llm, o.fault,
                              nruns + 1))

\* management command process_articles [--reprocess] (process_articles.py lines 51-94)
Command(outcomes) ==
    \E reprocess \in BOOLEAN, o \in outcomes :
        /\ reprocess \/ ~article.features_extracted
        /\ Call("command", TRUE, o)
        /\ UNCHANGED <<text, businesses, now, nedits, task, txn, settings, geo, call, config>>

ProcessArticlesCommand == Command({Healthy})

ProcessArticlesCommandFaulty == Command(Outcomes)

\* Celery task process_article_async (tasks.py lines 24-110)
ProcessArticleAsync ==
    IF article.features_extracted
    THEN /\ task.status # "skipped"
         /\ task' = [task EXCEPT !.status = "skipped"]
         /\ UNCHANGED <<text, article, businesses, recs, now, nruns, nedits, last, repeat,
                        txn, settings, geo, call, config>>
    ELSE \E o \in Outcomes :
            /\ Call("async", TRUE, o)
            /\ task' = IF last'.raised
                       THEN [status |-> IF task.retries < 3 THEN "retry" ELSE "failed",
                             retries |-> Min(3, task.retries + 1)]
                       ELSE [task EXCEPT !.status = "returned"]
            /\ UNCHANGED <<text, businesses, now, nedits, txn, settings, geo, call, config>>

\* BusinessViewSet update (businesses/views.py): one field of one business changes
UpdateBusiness ==
    \E b \in 1..NumBusinesses, field \in {"is_active", "business_type",
                                          "include_national_events", "has_tv_screens"} :
        /\ nedits < MaxEdits
        /\ nedits' = nedits + 1
        /\ businesses' =
             [businesses EXCEPT ![b] =
                CASE field = "is_active" -> [@ EXCEPT !.is_active = ~@]
                  [] field = "business_type" ->
                        [@ EXCEPT !.business_type = IF @ = "pub" THEN "bookstore" ELSE "pub"]
                  [] field = "include_national_events" ->
                        [@ EXCEPT !.include_national_events = ~@]
                  [] OTHER -> [@ EXCEPT !.has_tv_screens = ~@]]
        /\ UNCHANGED <<text, article, recs, now, nruns, last, repeat, task, txn, settings, geo, call, config>>

\* time passes: the event comes within two days
AdvanceClock ==
    /\ now = 0
    /\ now' = MaxDay
    /\ UNCHANGED <<text, article, businesses, recs, nruns, nedits, last, repeat, task, txn,
                   settings, geo, call, config>>

\* reprocessing in a healthy deployment while businesses are edited and time passes
Next ==
    \/ ProcessArticlesCommand
    \/ UpdateBusiness
    \/ AdvanceClock

Spec == Init /\ [][Next]_vars

\* first processing by the Celery task and reprocessing by the command, with
\* failures of the LLM and exceptions inside the pipeline
NextFault ==
    \/ ProcessArticleAsync
    \/ ProcessArticlesCommandFaulty

SpecFault == Init /\ [][NextFault]_vars

---------------------------------------------------------------------------
(* Two workers run process_article on the same article, each in its own
   transaction (@transaction.atomic, line 896).  A transaction's writes are
   invisible to the other until it commits, and its UPDATE of the article
   row (article.save(), line 1043) holds that row's lock until it commits. *)

\* the variant without the row lock
ArticleRowUnlocked(w) == TRUE

\* no other open transaction has written the article row
ArticleRowFree(w) == \A v \in Workers \ {w} : txn[v].pc \notin {"saved", "generated"}

\* the caller loads the article row (tasks.py line 46, process_articles.py line 52)
Fetch(w) ==
    /\ txn[w].pc = "idle"
    /\ nruns < MaxRuns
    /\ nruns' = nruns + 1
    /\ txn' = [txn EXCEPT ![w] = [IdleTxn EXCEPT !.pc = "fetched", !.mem = article,
                                                 !.run = nruns + 1]]
    /\ UNCHANGED <<text, article, businesses, recs, now, nedits, last, repeat, task, settings,
                   geo, call, config>>

\* lines 913-1043: the features are computed in memory and the row is updated
SaveArticle(w) ==
    /\ txn[w].pc = "fetched"
    /\ ArticleRowFree(w)
    /\ txn' = [txn EXCEPT ![w].pc = "saved"]
    /\ UNCHANGED <<text, article, businesses, recs, now, nruns, nedits, last, repeat, task,
                   settings, geo, call, config>>

\* the uncommitted writes of a run that returned r
Pending(run, r) ==
    [pc |-> "generated", mem |-> r.article, run |-> run,
     deleted |-> recs \ r.recs, inserted |-> r.recs \ recs]

\* lines 1045-1086: matching and generation against the committed tables
Generate(w) ==
    /\ txn[w].pc = "saved"
    /\ txn' = [txn EXCEPT ![w] =
                 Pending(txn[w].run,
                         process_article(txn[w].mem, recs, businesses, text, now, TRUE,
                                         Healthy.llm, NoFault, txn[w].run))]
    /\ UNCHANGED <<text, article, businesses, recs, now, nruns, nedits, last, repeat, task,
                   settings, geo, call, config>>

\* the function returns and the transaction commits
Commit(w) ==
    /\ txn[w].pc = "generated"
    /\ article' = txn[w].mem
    /\ recs' = (recs \ txn[w].deleted) \cup txn[w].inserted
    /\ txn' = [txn EXCEPT ![w] = IdleTxn]
    /\ UNCHANGED <<text, businesses, now, nruns, nedits, last, repeat, task, settings, geo, call, config>>

NextConc ==
    \/ \E w \in Workers : Fetch(w)
    \/ \E w \in Workers : SaveArticle(w)
    \/ \E w \in Workers : Generate(w)
    \/ \E w \in Workers : Commit(w)
    \/ AdvanceClock

SpecConc == Init /\ [][NextConc]_vars

---------------------------------------------------------------------------
(* GeographicMatcher.is_relevant applied to every combination of article
   location fields and business flags *)

\* (primary_city, event_country): is_relevant reads the two article fields
\* independently (lines 222, 236, 251), each known-home, known-other or empty
Locations == { <<c, k>> : c \in {"Medellín", "Bogotá", ""}, k \in {"Colombia", "Qatar", ""} }

GeoArticles ==
    { [DefaultArticle EXCEPT !.primary_city = loc[1], !.event_country = loc[2],
                             !.event_scale = scale, !.event_type_detected = et,
                             !.colombian_involvement = inv] :
        loc \in Locations, scale \in {"small", "medium", "large", "massive"},
        et \in {"sports_match", "festival", "concert", "crime"}, inv \in BOOLEAN }

GeoBusinesses ==
    { [InitialBusinesses[1] EXCEPT !.city = c, !.include_national_events = n,
                                   !.has_tv_screens = tv] :
        c \in {"medellin", "bogota"}, n \in BOOLEAN, tv \in BOOLEAN }

InitGeo ==
    /\ text \in { t \in Texts : t.words = {} }
    /\ settings = [LLM_EXTRACTION_ENABLED |-> FALSE]
    /\ article = DefaultArticle
    /\ businesses = InitialBusinesses
    /\ recs = {}
    /\ now = 0
    /\ nruns = 0
    /\ nedits = 0
    /\ last = NoRun
    /\ repeat = FALSE
    /\ task = IdleTask
    /\ txn = [w \in Workers |-> IdleTxn]
    /\ geo \in { [a |-> a, business |-> b, applied |-> FALSE, result |-> FALSE] :
                   a \in GeoArticles, b \in GeoBusinesses }
    /\ call = NoCall
    /\ config = DefaultConfig

ApplyIsRelevant ==
    /\ ~geo.applied
    /\ geo' = [geo EXCEPT !.applied = TRUE, !.result = is_relevant(geo.a, geo.business)]
    /\ UNCHANGED <<text, article, businesses, recs, now, nruns, nedits, last, repeat, task, txn,
                   settings, call, config>>

SpecGeo == InitGeo /\ [][ApplyIsRelevant]_vars

---------------------------------------------------------------------------
(* PreFilter.calculate_suitability applied to combinations of text, article
   fields, event type and reference business *)

\* every text, as published and behind a subscription wall
SuitTexts == Texts \cup { [t EXCEPT !.words = @ \cup {"suscribete"}] : t \in Texts }

\* (is_broadcastable, broadcastability_score) as a run stores them with the
\* default threshold 0.55
SuitBroadcast == { <<FALSE, 0>>, <<FALSE, 400000>>, <<TRUE, 600000>>, <<TRUE, 850000>> }

SuitArticles ==
    { [DefaultArticle EXCEPT !.event_country = k, !.colombian_involvement = inv,
                             !.is_broadcastable = bc[1], !.broadcastability_score = bc[2],
                             !.extracted_keywords = kw] :
        k \in {"Colombia", "Qatar", ""}, inv \in BOOLEAN, bc \in SuitBroadcast,
        kw \in {{}, {"futbol"}} }

\* one type per table, one sports type outside the tables, none
SuitEventTypes == {None, "sports_match", "tournament", "concert", "conference", "crime"}

\* no reference business, one with screens, one without
SuitBusinesses ==
    {NoBusiness} \cup { [InitialBusinesses[1] EXCEPT !.has_tv_screens = tv] : tv \in BOOLEAN }

InitSuit ==
    /\ text \in { t \in Texts : t.words = {} }
    /\ settings = [LLM_EXTRACTION_ENABLED |-> FALSE]
    /\ article = DefaultArticle
    /\ businesses = InitialBusinesses
    /\ recs = {}
    /\ now = 0
    /\ nruns = 0
    /\ nedits = 0
    /\ last = NoRun
    /\ repeat = FALSE
    /\ task = IdleTask
    /\ txn = [w \in Workers |-> IdleTxn]
    /\ geo = NoGeo
    /\ config = DefaultConfig
    /\ call \in { [fn |-> "calculate_suitability", a |-> a, t |-> t, event_type |-> et,
                    business |-> b, applied |-> FALSE, result |-> 0] :
                    a \in SuitArticles, t \in SuitTexts, et \in SuitEventTypes,
                    b \in SuitBusinesses }

ApplyCalculateSuitability ==
    /\ call.fn = "calculate_suitability" /\ ~call.applied
    /\ call' = [call EXCEPT !.applied = TRUE,
                            !.result = calculate_suitability(call.a, call.t, call.event_type,
                                                             call.business)]
    /\ UNCHANGED <<text, article, businesses, recs, now, nruns, nedits, last, repeat, task, txn,
                   settings, geo, config>>

SpecSuit == InitSuit /\ [][ApplyCalculateSuitability]_vars

---------------------------------------------------------------------------
(* BroadcastabilityCalculator.calculate applied to an article under a taxonomy
   and under the same taxonomy with one hype boost raised *)

\* weight vectors (hundredths) that are non-negative and sum to 1.0: the
\* default, an even split, and all the weight on one component
BcWeights ==
    { <<35, 30, 20, 15>>, <<25, 25, 25, 25>>, <<100, 0, 0, 0>>, <<0, 100, 0, 0>>,
      <<0, 0, 100, 0>>, <<0, 0, 0, 100>> }

BcConfigs ==
    { [DefaultConfig EXCEPT !.sport_appeal_weight = w[1], !.competition_level_weight = w[2],
                            !.hype_indicators_weight = w[3], !.attendance_weight = w[4]] :
        w \in BcWeights }

\* hype_boost of the first indicator: the seed value, and a negative value as
\* objects.create stores it (the field validators run in forms only)
BcBoosts == {300000, -200000}

BcTaxonomies ==
    { [Taxonomy EXCEPT !.config = cfg, !.hype_indicators[1].hype_boost = b] :
        cfg \in BcConfigs, b \in BcBoosts }

\* the steps by which one hype_boost is raised
BcRaises == {100000, 200000}

\* taxonomy tax with the boost of its i-th hype indicator raised by d
RaiseBoost(tax, i, d) == [tax EXCEPT !.hype_indicators[i].hype_boost = @ + d]

BcEventTypes == {"sports_match", "tournament", "concert"}

BcAttendances == {NoAttendance, 10000, 40000, 80000}

InitBroadcast ==
    /\ text \in { t \in Texts : t.words = {} }
    /\ settings = [LLM_EXTRACTION_ENABLED |-> FALSE]
    /\ article = DefaultArticle
    /\ businesses = InitialBusinesses
    /\ recs = {}
    /\ now = 0
    /\ nruns = 0
    /\ nedits = 0
    /\ last = NoRun
    /\ repeat = FALSE
    /\ task = IdleTask
    /\ txn = [w \in Workers |-> IdleTxn]
    /\ geo = NoGeo
    /\ config = DefaultConfig
    /\ call \in { [fn |-> "calculate", t |-> t, event_type_detected |-> et,
                    expected_attendance |-> att, indicator |-> i,
                    tax |-> <<tax, RaiseBoost(tax, i, d)>>,
                    applied |-> <<FALSE, FALSE>>,
                    result |-> <<_zero_result, _zero_result>>] :
                    t \in Texts, et \in BcEventTypes, att \in BcAttendances,
                    tax \in BcTaxonomies, i \in 1..Len(HypeIndicators), d \in BcRaises }

\* calculate(article) with the calculator holding the k-th taxonomy
ApplyCalculate(k) ==
    /\ call.fn = "calculate" /\ ~call.applied[k]
    /\ call' = [call EXCEPT !.applied[k] = TRUE,
                            !.result[k] = calculate(call.t, call.event_type_detected,
                                                    call.expected_attendance, call.tax[k])]
    /\ UNCHANGED <<text, article, businesses, recs, now, nruns, nedits, last, repeat, task, txn,
                   settings, geo, config>>

NextBroadcast == ApplyCalculate(1) \/ ApplyCalculate(2)

SpecBroadcast == InitBroadcast /\ [][NextBroadcast]_vars

---------------------------------------------------------------------------
(* BroadcastabilityCalculator._calculate_attendance_score applied to two
   attendances, the second at least the first *)

\* the default thresholds and a second ascending triple
AttThresholds == { <<5000, 20000, 50000>>, <<2000, 10000, 30000>> }

AttConfigs ==
    { [DefaultConfig EXCEPT !.attendance_small = th[1], !.attendance_medium = th[2],
                            !.attendance_large = th[3]] : th \in AttThresholds }

\* expected_attendance: none, negative, inside each band, on and next to each threshold
AttValues ==
    { NoAttendance, -5000, 1, 1999, 2000, 2500, 4999, 5000, 9999, 10000, 19999, 20000,
      29999, 30000, 35000, 49999, 50000, 80000 }

\* two attendances, the second at least the first
AttPairs == { p \in AttValues \X AttValues : p[1] <= p[2] }

InitAttendance ==
    /\ text \in { t \in Texts : t.words = {} }
    /\ settings = [LLM_EXTRACTION_ENABLED |-> FALSE]
    /\ article = DefaultArticle
    /\ businesses = InitialBusinesses
    /\ recs = {}
    /\ now = 0
    /\ nruns = 0
    /\ nedits = 0
    /\ last = NoRun
    /\ repeat = FALSE
    /\ task = IdleTask
    /\ txn = [w \in Workers |-> IdleTxn]
    /\ geo = NoGeo
    /\ config = DefaultConfig
    /\ call \in { [fn |-> "_calculate_attendance_score", attendance |-> p,
                    config |-> cfg, applied |-> <<FALSE, FALSE>>, result |-> <<0, 0>>] :
                    p \in AttPairs, cfg \in AttConfigs }

\* _calculate_attendance_score(article) on the k-th attendance
ApplyAttendanceScore(k) ==
    /\ call.fn = "_calculate_attendance_score" /\ ~call.applied[k]
    /\ call' = [call EXCEPT !.applied[k] = TRUE,
                            !.result[k] = _calculate_attendance_score(call.attendance[k],
                                                                      call.config)]
    /\ UNCHANGED <<text, article, businesses, recs, now, nruns, nedits, last, repeat, task, txn,
                   settings, geo, config>>

NextAttendance == ApplyAttendanceScore(1) \/ ApplyAttendanceScore(2)

SpecAttendance == InitAttendance /\ [][NextAttendance]_vars

---------------------------------------------------------------------------
(* The BroadcastabilityConfig row and its writers (event_taxonomy/models.py,
   event_taxonomy/admin.py) *)

\* the table is empty: no migration creates the row
NoConfig == [exists |-> FALSE]

\* weight vectors (hundredths) a writer may hold: sums 1.00, 1.00, 1.00, 1.01,
\* 0.99, 1.15 and 0.95
ConfigWeights ==
    { <<35, 30, 20, 15>>, <<25, 25, 25, 25>>, <<100, 0, 0, 0>>, <<36, 30, 20, 15>>,
      <<35, 30, 20, 14>>, <<50, 30, 20, 15>>, <<35, 30, 20, 10>> }

WithWeights(cfg, w) ==
    [cfg EXCEPT !.sport_appeal_weight = w[1], !.competition_level_weight = w[2],
                !.hype_indicators_weight = w[3], !.attendance_weight = w[4]]

total_weight(cfg) ==
    cfg.sport_appeal_weight + cfg.competition_level_weight
        + cfg.hype_indicators_weight + cfg.attendance_weight

\* clean() returns without raising ValidationError
clean(cfg) == 99 <= total_weight(cfg) /\ total_weight(cfg) <= 101

\* the record of one write: who wrote, the weights held, the row before, and
\* whether the write raised
NoWrite ==
    [fn |-> "BroadcastabilityConfig", op |-> "none", weights |-> <<35, 30, 20, 15>>,
     before |-> NoConfig, rejected |-> FALSE]

Written(op, w, rejected) ==
    call' = [fn |-> "BroadcastabilityConfig", op |-> op, weights |-> w, before |-> config,
             rejected |-> rejected]

PipelineIdle ==
    UNCHANGED <<text, article, businesses, recs, now, nruns, nedits, last, repeat, task, txn,
                settings, geo>>

InitConfig ==
    /\ text \in { t \in Texts : t.words = {} }
    /\ settings = [LLM_EXTRACTION_ENABLED |-> FALSE]
    /\ article = DefaultArticle
    /\ businesses = InitialBusinesses
    /\ recs = {}
    /\ now = 0
    /\ nruns = 0
    /\ nedits = 0
    /\ last = NoRun
    /\ repeat = FALSE
    /\ task = IdleTask
    /\ txn = [w \in Workers |-> IdleTxn]
    /\ geo = NoGeo
    /\ config = NoConfig
    /\ call = NoWrite

\* get_instance(): get_or_create(pk=1) with the default weights
GetInstance ==
    /\ config' = IF config = NoConfig THEN DefaultConfig ELSE config
    /\ Written("get_instance", <<35, 30, 20, 15>>, FALSE)
    /\ PipelineIdle

\* the admin add or change form: the form runs clean(), save_model runs it
\* again, and only then the row is written
AdminSave ==
    \E w \in ConfigWeights :
        LET obj == WithWeights(IF config = NoConfig THEN DefaultConfig ELSE config, w)
        IN /\ config' = IF clean(obj) THEN obj ELSE config
           /\ Written("admin", w, ~clean(obj))
           /\ PipelineIdle

\* BroadcastabilityConfig(...).save() on a new instance: ValueError when a row
\* exists, else the row is inserted as it is
SaveNew ==
    \E w \in ConfigWeights :
        /\ config' = IF config = NoConfig THEN WithWeights(DefaultConfig, w) ELSE config
        /\ Written("save_new", w, config # NoConfig)
        /\ PipelineIdle

\* save() on the loaded instance after its weights were assigned: pk is set,
\* so Model.save() updates the row as it is
SaveExisting ==
    \E w \in ConfigWeights :
        /\ config # NoConfig
        /\ config' = WithWeights(config, w)
        /\ Written("save", w, FALSE)
        /\ PipelineIdle

NextConfig == GetInstance \/ AdminSave \/ SaveNew \/ SaveExisting

SpecConfig == InitConfig /\ [][NextConfig]_vars

---------------------------------------------------------------------------
(* FeatureExtractor.extract_event_type applied to every text under every
   choice of active taxonomy patterns *)

\* the seed rows, each switched on or off (ExtractionPattern.is_active)
PatternTables ==
    { [i \in 1..Len(ExtractionPatternTable) |->
          [ExtractionPatternTable[i] EXCEPT !.is_active = (i \in on)]] :
        on \in SUBSET (1..Len(ExtractionPatternTable)) }

InitExtract ==
    /\ text \in { t \in Texts : t.words = {} }
    /\ settings = [LLM_EXTRACTION_ENABLED |-> FALSE]
    /\ article = DefaultArticle
    /\ businesses = InitialBusinesses
    /\ recs = {}
    /\ now = 0
    /\ nruns = 0
    /\ nedits = 0
    /\ last = NoRun
    /\ repeat = FALSE
    /\ task = IdleTask
    /\ txn = [w \in Workers |-> IdleTxn]
    /\ geo = NoGeo
    /\ config = DefaultConfig
    /\ call \in { [fn |-> "extract_event_type", t |-> t, table |-> table,
                    applied |-> FALSE, result |-> <<None, None>>] :
                    t \in Texts, table \in PatternTables }

ApplyExtractEventType ==
    /\ call.fn = "extract_event_type" /\ ~call.applied
    /\ call' = [call EXCEPT !.applied = TRUE,
                            !.result = extract_event_type(call.t, call.table)]
    /\ UNCHANGED <<text, article, businesses, recs, now, nruns, nedits, last, repeat, task, txn,
                   settings, geo, config>>

SpecExtract == InitExtract /\ [][ApplyExtractEventType]_vars

---------------------------------------------------------------------------
(* process_article under a taxonomy to which a malformed pattern was added *)

\* rows an administrator can add: the admin forms do not compile the pattern
BadTypePattern ==
    [target |-> "type", event_type |-> "sports_match", event_subtype |-> None,
     pattern |-> "[campeonato", weight |-> 10, is_active |-> TRUE]

BadSubtypePattern ==
    [target |-> "subtype", event_type |-> "sports_match", event_subtype |-> "colombian_soccer",
     pattern |-> "[campeonato", weight |-> 10, is_active |-> TRUE]

BadHypeIndicator == [pattern |-> "[campeonato", hype_boost |-> 300000, category |-> "finals"]

\* the seed table, and the seed table with one malformed row
BadPatternTables ==
    { ExtractionPatternTable, Append(ExtractionPatternTable, BadTypePattern),
      Append(ExtractionPatternTable, BadSubtypePattern) }

\* the seed taxonomy, and the seed taxonomy with one malformed hype indicator
BadTaxonomies ==
    { Taxonomy, [Taxonomy EXCEPT !.hype_indicators = Append(@, BadHypeIndicator)] }

\* the rows that compile
WellFormedTable(table) == SelectSeq(table, LAMBDA p : ~Malformed(p.pattern))

WellFormedTaxonomy(tax) ==
    [tax EXCEPT !.hype_indicators = SelectSeq(@, LAMBDA h : ~Malformed(h.pattern))]

InitPattern ==
    /\ text \in Texts
    /\ settings \in [LLM_EXTRACTION_ENABLED : BOOLEAN]
    /\ article = DefaultArticle
    /\ businesses = InitialBusinesses
    /\ recs = {}
    /\ now = 0
    /\ nruns = 0
    /\ nedits = 0
    /\ last = NoRun
    /\ repeat = FALSE
    /\ task = IdleTask
    /\ txn = [w \in Workers |-> IdleTxn]
    /\ geo = NoGeo
    /\ config = DefaultConfig
    /\ call \in { [fn |-> "taxonomy", table |-> table, tax |-> tax] :
                    table \in BadPatternTables, tax \in BadTaxonomies }

\* management command process_articles [--reprocess] with the extractor and the
\* calculator holding the taxonomy of `call`
ProcessUnderTaxonomy ==
    \E reprocess \in BOOLEAN :
        /\ call.fn = "taxonomy"
        /\ reprocess \/ ~article.features_extracted
        /\ nruns < MaxRuns
        /\ Record("command", TRUE, Healthy,
                  ProcessArticle([stored |-> article, rows |-> recs, bizs |-> businesses,
                                  t |-> text, today |-> now, save |-> TRUE,
                                  llm |-> Healthy.llm, fault |-> NoFault, run |-> nruns + 1,
                                  table |-> call.table, tax |-> call.tax]))
        /\ UNCHANGED <<text, businesses, now, nedits, task, txn, settings, geo, call, config>>

NextPattern == ProcessUnderTaxonomy \/ AdvanceClock

SpecPattern == InitPattern /\ [][NextPattern]_vars

---------------------------------------------------------------------------
(* FeatureExtractor._load_patterns_cached: the five-minute pattern cache *)

CACHE_DURATION == 300

SECONDS_PER_DAY == 86400

\* steps of the clock
MaxTicks == 4

\* edits of the pattern table
MaxVersions == 2

\* seconds that pass between two steps
Elapsed == {300, 301, 86100}

\* timedelta.seconds: the seconds field of a normalised timedelta, days left out
timedelta_seconds(d) == d % SECONDS_PER_DAY

EmptyCache == [loaded |-> FALSE]

NoSnapshot == [returned |-> FALSE]

InitCache ==
    /\ text \in Texts
    /\ settings \in [LLM_EXTRACTION_ENABLED : BOOLEAN]
    /\ article = DefaultArticle
    /\ businesses = InitialBusinesses
    /\ recs = {}
    /\ now = 0
    /\ nruns = 0
    /\ nedits = 0
    /\ last = NoRun
    /\ repeat = FALSE
    /\ task = IdleTask
    /\ txn = [w \in Workers |-> IdleTxn]
    /\ geo = NoGeo
    /\ config = DefaultConfig
    /\ call = [fn |-> "cache", clock |-> 0, ticks |-> 0, db |-> 0,
               cache |-> EmptyCache, result |-> NoSnapshot]

\* the wall clock advances
Tick ==
    \E d \in Elapsed :
        /\ call.fn = "cache"
        /\ call.ticks < MaxTicks
        /\ call' = [call EXCEPT !.clock = @ + d, !.ticks = @ + 1]
        /\ UNCHANGED <<text, article, businesses, recs, now, nruns, nedits, last, repeat,
                       task, txn, settings, geo, config>>

\* an administrator edits the pattern table
EditPatterns ==
    /\ call.fn = "cache"
    /\ call.db < MaxVersions
    /\ call' = [call EXCEPT !.db = @ + 1]
    /\ UNCHANGED <<text, article, businesses, recs, now, nruns, nedits, last, repeat,
                   task, txn, settings, geo, config>>

\* _load_patterns_cached()
LoadPatternsCached ==
    /\ call.fn = "cache"
    /\ LET reload == \/ ~call.cache.loaded
                     \/ timedelta_seconds(call.clock - call.cache.at) > CACHE_DURATION
           cache == IF reload
                    THEN [loaded |-> TRUE, at |-> call.clock, version |-> call.db]
                    ELSE call.cache
       IN call' = [call EXCEPT !.cache = cache,
                               !.result = [returned |-> TRUE, version |-> cache.version,
                                           loaded_at |-> cache.at, called_at |-> call.clock,
                                           reloaded |-> reload]]
    /\ UNCHANGED <<text, article, businesses, recs, now, nruns, nedits, last, repeat,
                   task, txn, settings, geo, config>>

NextCache == Tick \/ EditPatterns \/ LoadPatternsCached

SpecCache == InitCache /\ [][NextCache]_vars

---------------------------------------------------------------------------
(* BroadcastabilityCalculator.refresh_config beside a reader of the same calculator *)

\* the attributes refresh_config assigns, in the order of its statements
RefreshOrder == <<"config", "sport_types", "competition_levels", "hype_indicators">>

\* every attribute holds the rows of one version of the database
Snapshot(v) == [a \in {RefreshOrder[i] : i \in 1..Len(RefreshOrder)} |-> v]

NoObservation == [read |-> FALSE]

InitRefresh ==
    /\ text \in Texts
    /\ settings \in [LLM_EXTRACTION_ENABLED : BOOLEAN]
    /\ article = DefaultArticle
    /\ businesses = InitialBusinesses
    /\ recs = {}
    /\ now = 0
    /\ nruns = 0
    /\ nedits = 0
    /\ last = NoRun
    /\ repeat = FALSE
    /\ task = IdleTask
    /\ txn = [w \in Workers |-> IdleTxn]
    /\ geo = NoGeo
    /\ config = DefaultConfig
    /\ call = [fn |-> "refresh", db |-> 0, calc |-> Snapshot(0), pc |-> 0,
               patterns |-> 0, observed |-> NoObservation, extracted |-> NoObservation]

\* an administrator changes the weights and the tables, in one transaction
EditTaxonomy ==
    /\ call.fn = "refresh"
    /\ call.db < MaxVersions
    /\ call' = [call EXCEPT !.db = @ + 1]
    /\ UNCHANGED <<text, article, businesses, recs, now, nruns, nedits, last, repeat,
                   task, txn, settings, geo, config>>

\* refresh_config(): the next of its four assignments, each with its own query
RefreshConfigStep ==
    /\ call.fn = "refresh"
    /\ call.pc > 0 \/ call.calc # Snapshot(call.db)
    /\ call' = [call EXCEPT !.calc[RefreshOrder[call.pc + 1]] = call.db,
                            !.pc = (call.pc + 1) % Len(RefreshOrder)]
    /\ UNCHANGED <<text, article, businesses, recs, now, nruns, nedits, last, repeat,
                   task, txn, settings, geo, config>>

\* calculate() on the same calculator: reads the weights and the three tables
ReadCalculator ==
    /\ call.fn = "refresh"
    /\ call' = [call EXCEPT !.observed = [read |-> TRUE, calc |-> call.calc,
                                          refreshing |-> call.pc > 0]]
    /\ UNCHANGED <<text, article, businesses, recs, now, nruns, nedits, last, repeat,
                   task, txn, settings, geo, config>>

\* _load_patterns_cached() reloading: the new list is bound by one assignment
ReloadPatterns ==
    /\ call.fn = "refresh"
    /\ call.patterns # call.db
    /\ call' = [call EXCEPT !.patterns = call.db]
    /\ UNCHANGED <<text, article, businesses, recs, now, nruns, nedits, last, repeat,
                   task, txn, settings, geo, config>>

\* extract_event_type() on the same extractor: iterates the list it was handed
ReadPatterns ==
    /\ call.fn = "refresh"
    /\ call' = [call EXCEPT !.extracted = [read |-> TRUE, patterns |-> call.patterns]]
    /\ UNCHANGED <<text, article, businesses, recs, now, nruns, nedits, last, repeat,
                   task, txn, settings, geo, config>>

NextRefresh ==
    EditTaxonomy \/ RefreshConfigStep \/ ReadCalculator \/ ReloadPatterns \/ ReadPatterns

SpecRefresh == InitRefresh /\ [][NextRefresh]_vars

---------------------------------------------------------------------------
(* NewsArticle.save: the crawler's fields of an existing article *)

protected_fields ==
    {"source_id", "title", "content", "url", "author", "published_date", "section",
     "crawl_section"}

\* the keys of the crawler's article_data, and the source
CrawlerFields == protected_fields \cup {"first_paragraph"}

\* the row the crawler created
CreatedRow == [f \in CrawlerFields |-> "crawled"]

\* a save that writes what the instance carries
NewsArticle_save_unprotected(instance, existing) == instance

\* NewsArticle.save() of an instance with a primary key: a protected field whose
\* value differs from the stored one is set back before the row is written
NewsArticle_save(instance, existing) ==
    [f \in DOMAIN instance |->
        IF f \in protected_fields /\ existing[f] # instance[f] THEN existing[f] ELSE instance[f]]

\* an instance loaded from the row, with the fields of `changed` assigned
Assigned(row, changed) == [f \in DOMAIN row |-> IF f \in changed THEN "edited" ELSE row[f]]

NoSave == [caller |-> None]

InitProtect ==
    /\ text \in Texts
    /\ settings \in [LLM_EXTRACTION_ENABLED : BOOLEAN]
    /\ article = DefaultArticle
    /\ businesses = InitialBusinesses
    /\ recs = {}
    /\ now = 0
    /\ nruns = 0
    /\ nedits = 0
    /\ last = NoRun
    /\ repeat = FALSE
    /\ task = IdleTask
    /\ txn = [w \in Workers |-> IdleTxn]
    /\ geo = NoGeo
    /\ config = DefaultConfig
    /\ call = [fn |-> "save", row |-> CreatedRow, saved |-> NoSave]

\* any caller: load the article, assign one or two fields, save()
SaveInstance ==
    \E changed \in { S \in SUBSET CrawlerFields : Cardinality(S) \in 1..2 } :
        /\ call.fn = "save"
        /\ call' = [call EXCEPT
                      !.row = NewsArticle_save(Assigned(call.row, changed), call.row),
                      !.saved = [caller |-> "save", carried |-> changed]]
        /\ UNCHANGED <<text, article, businesses, recs, now, nruns, nedits, last, repeat,
                       task, txn, settings, geo, config>>

\* _save_article(): the crawler finds the url again with another title or content
\* and assigns every key of article_data but the url; the first paragraph is cut
\* from the content
SaveArticleUpdated ==
    \E differs \in {{"title"}, {"content"}, {"title", "content"}} :
        /\ call.fn = "save"
        /\ call' = [call EXCEPT
                      !.row = NewsArticle_save(
                                  [f \in CrawlerFields |->
                                      IF f \in {"url", "source_id"} THEN call.row[f]
                                      ELSE IF f \in differs THEN "recrawled"
                                      ELSE IF f = "first_paragraph" /\ "content" \in differs
                                      THEN "recrawled"
                                      ELSE "crawled"],
                                  call.row),
                      !.saved = [caller |-> "_save_article", carried |-> differs]]
        /\ UNCHANGED <<text, article, businesses, recs, now, nruns, nedits, last, repeat,
                       task, txn, settings, geo, config>>

\* process_article(save=True): the run assigns feature fields to the instance it
\* loaded and saves it
ProcessSavedArticle ==
    \E reprocess \in BOOLEAN :
        /\ call.fn = "save"
        /\ reprocess \/ ~article.features_extracted
        /\ nruns < MaxRuns
        /\ Record("command", TRUE, Healthy,
                  process_article(article, recs, businesses, text, now, TRUE, Healthy.llm,
                                  NoFault, nruns + 1))
        /\ call' = [call EXCEPT !.row = NewsArticle_save(call.row, call.row)]
        /\ UNCHANGED <<text, businesses, now, nedits, task, txn, settings, geo, config>>

NextProtect == SaveInstance \/ SaveArticleUpdated \/ ProcessSavedArticle

SpecProtect == InitProtect /\ [][NextProtect]_vars

---------------------------------------------------------------------------
(* process_article(article, save=False) beside the saving runs *)

\* a caller passes save=False to look at the result without storing it
DryRun ==
    /\ Call("dry", FALSE, Healthy)
    /\ UNCHANGED <<text, businesses, now, nedits, task, txn, settings, geo, call, config>>

NextDry == ProcessArticlesCommand \/ DryRun \/ AdvanceClock

SpecDry == Init /\ [][NextDry]_vars

---------------------------------------------------------------------------
(* BroadcastabilityCalculator._calculate_competition_level on its inputs *)

\* the seed rows of the model's taxonomy and two more seed rows of
\* seed_broadcastability.py: the regular first division and the second division
SeedCompetitionLevels ==
    CompetitionLevels \o
    << [code |-> "primera_division", sport_type |-> "soccer", broadcast_multiplier |-> 10,
        keywords |-> {"partido", "liga", "torneo"}],
       [code |-> "segunda_division", sport_type |-> "soccer", broadcast_multiplier |-> 4,
        keywords |-> {"segunda division", "ascenso"}] >>

\* the texts of the model and two league reports
CompetitionTexts ==
    Texts \cup
    { [words |-> {"liga", "futbol", "medellin"},
       attendance |-> 15000, eventDay |-> 8, short |-> FALSE],
      [words |-> {"ascenso", "liga", "futbol"},
       attendance |-> 3000, eventDay |-> 8, short |-> FALSE] }

DetectedSports == {None, "soccer", "combat_sports"}

\* the rows with is_active = True: any choice of the seed rows, in table order
ActiveLevels ==
    { SelectSeq(SeedCompetitionLevels, LAMBDA c : c.code \in codes) :
        codes \in SUBSET { SeedCompetitionLevels[i].code : i \in 1..Len(SeedCompetitionLevels) } }

InitCompetition ==
    /\ text \in { t \in Texts : t.words = {} }
    /\ settings = [LLM_EXTRACTION_ENABLED |-> FALSE]
    /\ article = DefaultArticle
    /\ businesses = InitialBusinesses
    /\ recs = {}
    /\ now = 0
    /\ nruns = 0
    /\ nedits = 0
    /\ last = NoRun
    /\ repeat = FALSE
    /\ task = IdleTask
    /\ txn = [w \in Workers |-> IdleTxn]
    /\ geo = NoGeo
    /\ config = DefaultConfig
    /\ call \in { [fn |-> "competition", t |-> t, detected_sport |-> s,
                    tax |-> [Taxonomy EXCEPT !.competition_levels = levels],
                    applied |-> FALSE, result |-> <<0, None>>] :
                    t \in CompetitionTexts, s \in DetectedSports, levels \in ActiveLevels }

\* _calculate_competition_level(text, article, detected_sport)
ApplyCompetitionLevel ==
    /\ call.fn = "competition" /\ ~call.applied
    /\ call' = [call EXCEPT !.applied = TRUE,
                            !.result = _calculate_competition_level(call.t, call.detected_sport,
                                                                    call.tax)]
    /\ UNCHANGED <<text, article, businesses, recs, now, nruns, nedits, last, repeat, task, txn,
                   settings, geo, config>>

SpecCompetition == InitCompetition /\ [][ApplyCompetitionLevel]_vars

---------------------------------------------------------------------------
(* RecommendationGenerator.generate on its inputs *)

\* event_scale as process_article stores it, "" when no run set it
EventScales == {"", "small", "medium", "large", "massive"}

\* the day of the event: unknown, past, today, within two days, later
EventDays == {NoDay, 0, 3, 4, 5, 6, 12}

GenBusinessTypes == {"pub", "bookstore"}

\* the day of the call
GenToday == 3

InitGenerate ==
    /\ text \in { t \in Texts : t.words = {} }
    /\ settings = [LLM_EXTRACTION_ENABLED |-> FALSE]
    /\ article = DefaultArticle
    /\ businesses = InitialBusinesses
    /\ recs = {}
    /\ now = 0
    /\ nruns = 0
    /\ nedits = 0
    /\ last = NoRun
    /\ repeat = FALSE
    /\ task = IdleTask
    /\ txn = [w \in Workers |-> IdleTxn]
    /\ geo = NoGeo
    /\ config = DefaultConfig
    /\ call \in { [fn |-> "generate",
                    a |-> [DefaultArticle EXCEPT !.event_type_detected = et,
                                                 !.event_scale = scale,
                                                 !.event_start_datetime = day,
                                                 !.features_extracted = TRUE],
                    business |-> [InitialBusinesses[1] EXCEPT !.business_type = bt],
                    applied |-> FALSE, result |-> {}] :
                    et \in DOMAIN TEMPLATES, scale \in EventScales, day \in EventDays,
                    bt \in GenBusinessTypes }

\* generate(article, business, relevance_score)
ApplyGenerate ==
    /\ call.fn = "generate" /\ ~call.applied
    /\ call' = [call EXCEPT !.applied = TRUE,
                            !.result = generate(call.a, call.business, 800000, GenToday, 1)]
    /\ UNCHANGED <<text, article, businesses, recs, now, nruns, nedits, last, repeat, task, txn,
                   settings, geo, config>>

SpecGenerate == InitGenerate /\ [][ApplyGenerate]_vars

---------------------------------------------------------------------------
(* ContentProcessor.process_news_source: the retry block of a news source *)

\* hours of the retry block
RETRY_HOURS == 24

\* hours between two looks at the clock
HoursPerTick == 12

\* calls of process_news_source
MaxCrawls == 5

NoRetry == [set |-> FALSE]

\* a NewsSource as created: model defaults, with or without an rss_url
NewSource(has_rss) ==
    [crawl_status |-> "unknown", failed_crawl_count |-> 0, crawl_retry_after |-> NoRetry,
     has_rss |-> has_rss, last_crawl_attempt |-> NoRetry]

\* _process_manual_crawl: articles saved, articles found but all known, none
\* found, or the crawl failed
ManualOutcomes == {"saved", "known", "zero", "failed"}

NoCrawl == [done |-> FALSE]

\* STEP 1: the retry block is in force
Blocked(source, at) ==
    /\ source.crawl_retry_after.set
    /\ source.crawl_retry_after.at > at
    /\ source.crawl_status \in {"uncrawlable", "spa_detected"}

\* the variant that gives up after two failures
_handle_zero_articles_result_two(source, is_spa, at) ==
    IF is_spa
    THEN [source EXCEPT !.crawl_status = "spa_detected",
                        !.crawl_retry_after = [set |-> TRUE, at |-> at + RETRY_HOURS],
                        !.failed_crawl_count = 0]
    ELSE IF source.failed_crawl_count + 1 >= 2
         THEN [source EXCEPT !.failed_crawl_count = @ + 1,
                             !.crawl_status = "uncrawlable",
                             !.crawl_retry_after = [set |-> TRUE, at |-> at + RETRY_HOURS]]
         ELSE [source EXCEPT !.failed_crawl_count = @ + 1]

\* _handle_zero_articles_result(source, result)
_handle_zero_articles_result(source, is_spa, at) ==
    IF is_spa
    THEN [source EXCEPT !.crawl_status = "spa_detected",
                        !.crawl_retry_after = [set |-> TRUE, at |-> at + RETRY_HOURS],
                        !.failed_crawl_count = 0]
    ELSE IF source.failed_crawl_count + 1 >= 3
         THEN [source EXCEPT !.failed_crawl_count = @ + 1,
                             !.crawl_status = "uncrawlable",
                             !.crawl_retry_after = [set |-> TRUE, at |-> at + RETRY_HOURS]]
         ELSE [source EXCEPT !.failed_crawl_count = @ + 1]

\* the reset after a crawl that brought articles (lines 149-154, 179-184, 200-205)
ResetFailures(source, status) ==
    [source EXCEPT !.crawl_status = status, !.failed_crawl_count = 0,
                   !.crawl_retry_after = NoRetry]

\* STEP 4 and STEP 5 on the source as STEP 2 and STEP 3 left it
ManualCrawl(source, manual, is_spa, at) ==
    IF manual \in {"saved", "known"}
    THEN [source |-> ResetFailures(source, "manual_crawlable"), method |-> "manual",
          articles_found |-> TRUE, articles_saved |-> (manual = "saved"),
          spa_checked |-> FALSE]
    ELSE [source |-> _handle_zero_articles_result(source, is_spa, at), method |-> None,
          articles_found |-> FALSE, articles_saved |-> FALSE, spa_checked |-> TRUE]

\* process_news_source(source, force_manual) at hour `at`: rss_saved says that the
\* feed, when tried, succeeds with new articles; discovered that the discovery
\* finds a feed
process_news_source(source, force_manual, rss_saved, discovered, manual, is_spa, at) ==
    IF Blocked(source, at)
    THEN [source |-> source, blocked |-> TRUE, crawled |-> FALSE, method |-> None,
          articles_found |-> FALSE, articles_saved |-> FALSE, spa_checked |-> FALSE]
    ELSE LET attempted == [source EXCEPT !.last_crawl_attempt = [set |-> TRUE, at |-> at]]
             found_feed == ~force_manual /\ ~source.has_rss /\ discovered
             withfeed == [attempted EXCEPT !.has_rss = @ \/ found_feed]
         IN IF ~force_manual /\ withfeed.has_rss /\ rss_saved
            THEN [source |-> ResetFailures(withfeed, "rss_available"), blocked |-> FALSE,
                  crawled |-> TRUE,
                  method |-> IF found_feed THEN "rss_discovered" ELSE "rss",
                  articles_found |-> TRUE, articles_saved |-> TRUE, spa_checked |-> FALSE]
            ELSE [blocked |-> FALSE, crawled |-> TRUE]
                    @@ ManualCrawl(withfeed, manual, is_spa, at)

InitCrawl ==
    /\ text \in { t \in Texts : t.words = {} }
    /\ settings = [LLM_EXTRACTION_ENABLED |-> FALSE]
    /\ article = DefaultArticle
    /\ businesses = InitialBusinesses
    /\ recs = {}
    /\ now = 0
    /\ nruns = 0
    /\ nedits = 0
    /\ last = NoRun
    /\ repeat = FALSE
    /\ task = IdleTask
    /\ txn = [w \in Workers |-> IdleTxn]
    /\ geo = NoGeo
    /\ config = DefaultConfig
    /\ \E has_rss \in BOOLEAN :
          call = [fn |-> "crawl", source |-> NewSource(has_rss), clock |-> 0, ticks |-> 0,
                  ncrawls |-> 0, crawl |-> NoCrawl]

\* one call of process_news_source by the crawler
ProcessNewsSource ==
    \E force_manual, rss_saved, discovered, is_spa \in BOOLEAN, manual \in ManualOutcomes :
        /\ call.fn = "crawl"
        /\ call.ncrawls < MaxCrawls
        /\ LET r == process_news_source(call.source, force_manual, rss_saved, discovered,
                                        manual, is_spa, call.clock)
           IN call' = [call EXCEPT
                         !.source = r.source,
                         !.ncrawls = @ + 1,
                         !.crawl = [done |-> TRUE, at |-> call.clock, before |-> call.source,
                                    after |-> r.source, blocked |-> r.blocked,
                                    crawled |-> r.crawled, method |-> r.method,
                                    articles_found |-> r.articles_found,
                                    articles_saved |-> r.articles_saved,
                                    is_spa |-> r.spa_checked /\ is_spa]]
        /\ UNCHANGED <<text, article, businesses, recs, now, nruns, nedits, last, repeat,
                       task, txn, settings, geo, config>>

\* time passes
TickHours ==
    /\ call.fn = "crawl"
    /\ call.ticks < MaxTicks
    /\ call' = [call EXCEPT !.clock = @ + HoursPerTick, !.ticks = @ + 1]
    /\ UNCHANGED <<text, article, businesses, recs, now, nruns, nedits, last, repeat,
                   task, txn, settings, geo, config>>

NextCrawl == ProcessNewsSource \/ TickHours

SpecCrawl == InitCrawl /\ [][NextCrawl]_vars

---------------------------------------------------------------------------
(* Properties *)

\* the pipeline-owned fields of an article, timestamps and the error text left out
Owned(a) ==
    [event_type_detected |-> a.event_type_detected, event_subtype |-> a.event_subtype,
     primary_city |-> a.primary_city, neighborhood |-> a.neighborhood,
     event_country |-> a.event_country, event_scale |-> a.event_scale,
     event_start_datetime |-> a.event_start_datetime,
     expected_attendance |-> a.expected_attendance,
     colombian_involvement |-> a.colombian_involvement,
     category |-> a.category, subcategory |-> a.subcategory,
     sport_type |-> a.sport_type, competition_level |-> a.competition_level,
     business_suitability_score |-> a.business_suitability_score,
     broadcastability_score |-> a.broadcastability_score,
     hype_score |-> a.hype_score, is_broadcastable |-> a.is_broadcastable,
     business_relevance_score |-> a.business_relevance_score]

RowsOf(rows, b) == { r \in rows : r.business = b }

\* the latest call was a save=True call that returned success
SuccessfulRun == last.run > 0 /\ last.save /\ last.success /\ ~last.excepted

\* the latest call as it would have gone on an article never processed before
FreshRun ==
    process_article(DefaultArticle, last.before_recs, last.businesses, text, last.now,
                    last.save, last.llm, last.fault, last.run)

\* the latest call as it would have gone with the LLM cross-check switched off
SkippedRun ==
    process_article(last.before_article, last.before_recs, last.businesses, text, last.now,
                    last.save, "disabled", last.fault, last.run)

\* C1: a second successful save=True run with the same text, businesses,
\* taxonomies, clock and LLM answer leaves the pipeline-owned fields and the
\* number of recommendation rows as the first run left them
C1_Idempotent ==
    (repeat /\ SuccessfulRun)
        => /\ Owned(article) = Owned(last.before_article)
           /\ Cardinality(recs) = Cardinality(last.before_recs)

\* C2: the fields a successful run persists depend only on the text, the
\* businesses and the taxonomies: an article with fields left by an earlier
\* run ends the run with the fields a never-processed article ends it with
C2_FullOverwrite ==
    SuccessfulRun => Owned(article) = Owned(FreshRun.article)

\* C3: a run in which a step raised leaves the article's pipeline-owned fields
\* as they were before the call and neither adds nor deletes a recommendation
C3_RollsBack ==
    (last.run > 0 /\ last.excepted)
        => /\ Owned(article) = Owned(last.before_article)
           /\ article.features_extracted = last.before_article.features_extracted
           /\ recs = last.before_recs

\* C4: a run in which a step raised does not return normally: the exception
\* reaches process_article_async, which schedules a retry
C4_Propagates ==
    (last.run > 0 /\ last.excepted)
        => /\ last.raised
           /\ (last.caller = "async" => task.status = "retry" /\ task.retries > 0)

\* C5: after a successful run the rows stored for a business that matched in
\* that run are exactly the rows that run generated for it
C5_LatestRows ==
    SuccessfulRun
        => \A b \in last.matching : RowsOf(recs, b) = RowsOf(last.created, b)

\* C6: after a successful run no row created by an earlier run remains, for
\* any business
C6_NoStaleRows ==
    SuccessfulRun => \A r \in recs : r.run = last.run

\* C7: at most 3 recommendation rows exist for any business, also while two
\* runs on the article are in flight in separate transactions
C7_AtMostThree ==
    \A b \in 1..NumBusinesses : Cardinality(RowsOf(recs, b)) <= 3

\* a worker has generated 3 rows for a business and holds the article row
\* while the other worker, which fetched the same article before, waits
\* for it
C7_Witness ==
    \E w \in Workers, v \in Workers, b \in 1..NumBusinesses :
        /\ w # v
        /\ txn[w].pc = "generated" /\ txn[v].pc = "fetched"
        /\ Cardinality(RowsOf(txn[w].inserted, b)) = 3

\* C8: when the LLM cross-check is called and raises or returns nothing, the
\* run succeeds and stores the article and the rows that the same run stores
\* with the cross-check switched off
C8_LLMFailure ==
    (last.run > 0 /\ last.llm \in {"raise", "none"} /\ last.fault = NoFault)
        => /\ last.success /\ ~last.excepted
           /\ article = SkippedRun.article
           /\ recs = SkippedRun.recs
           /\ last.processed = SkippedRun.processed

\* the cross-check raised in a run that went on to create recommendations
C8_Witness ==
    /\ last.run > 0 /\ last.llm = "raise" /\ last.llm_invoked /\ last.fault = NoFault
    /\ last.created # {}

\* C9: a save=True run whose suitability is below 0.3 stores the features,
\* returns success with processed = false, evaluates no business, keeps the
\* relevance score and the recommendation rows, and does not call the LLM
C9_EarlyExit ==
    (last.run > 0 /\ last.save /\ ~last.excepted
       /\ article.business_suitability_score < 300000)
        => LET features == extract_all(text, last.now, ExtractionPatternTable)
           IN /\ last.success /\ ~last.processed
              /\ article.features_extracted
              /\ article.event_type_detected
                   = (IF features.event_type = None THEN "" ELSE features.event_type)
              /\ article.primary_city = (IF features.city = None THEN "" ELSE features.city)
              /\ article.event_scale = features.scale
              /\ article.event_country = features.event_country
              /\ last.gated = {} /\ last.scored = {} /\ last.matching = {}
              /\ article.business_relevance_score
                   = last.before_article.business_relevance_score
              /\ last.created = {} /\ recs = last.before_recs
              /\ ~last.llm_invoked

\* an article that had matched a business and holds rows is reprocessed and
\* falls below the threshold
C9_Witness ==
    /\ last.run > 1 /\ last.save /\ ~last.excepted
    /\ article.business_suitability_score < 300000
    /\ last.before_article.business_relevance_score > 0
    /\ last.before_recs # {}

\* the article lies in Colombia, in a city other than the business's
OtherCity(a, business) ==
    /\ a.event_country = "Colombia"
    /\ a.primary_city # ""
    /\ _normalize_city(a.primary_city) # _normalize_city(get_city_display(business))

\* C10: is_relevant is false for an article in another Colombian city and a
\* business with include_national_events = false, whatever the scale, the
\* event type, the involvement flag and the screen flag
C10_NoNationalNoMatch ==
    (geo.applied /\ OtherCity(geo.a, geo.business) /\ ~geo.business.include_national_events)
        => geo.result = FALSE

\* a massive match with Colombian involvement in another city, applied to a
\* business with screens that did not opt in to national events
C10_Witness ==
    /\ geo.applied /\ OtherCity(geo.a, geo.business)
    /\ ~geo.business.include_national_events
    /\ geo.a.event_scale = "massive" /\ geo.a.event_type_detected = "sports_match"
    /\ geo.a.colombian_involvement /\ geo.business.has_tv_screens

SuitApplied == call.fn = "calculate_suitability" /\ call.applied

\* the text carries a subscription-wall signature
Paywalled(t) == "suscribete" \in t.words

\* the event lies in a known country other than Colombia
Foreign(a) == a.event_country \notin {"", "Colombia"}

\* C12: when the text matches a paywall signature calculate_suitability returns
\* exactly 0, whatever the event type, country, involvement, broadcastability,
\* reference business and keyword matches
C12_PaywallZero ==
    (SuitApplied /\ Paywalled(call.t)) => call.result = 0

\* a paywalled concert announcement in Colombia that mentions beer, scored for a
\* business with screens: without the wall it would score above zero
C12_Witness ==
    /\ SuitApplied /\ Paywalled(call.t) /\ call.result = 0
    /\ call.event_type = "concert" /\ call.a.event_country = "Colombia"
    /\ "cerveza" \in call.t.words /\ ~call.t.short
    /\ call.business # NoBusiness /\ call.business.has_tv_screens

\* C13: for a foreign event without Colombian involvement and no paywall,
\* calculate_suitability returns broadcastability_score x 0.75 when the article
\* is marked broadcastable and a reference business exists and has screens, and
\* 0 in every other case
C13_ForeignNoInvolvement ==
    (SuitApplied /\ ~Paywalled(call.t) /\ Foreign(call.a) /\ ~call.a.colombian_involvement)
        => call.result =
             IF call.a.is_broadcastable /\ call.business # NoBusiness
                /\ call.business.has_tv_screens
             THEN (call.a.broadcastability_score * 3) \div 4
             ELSE 0

\* a broadcastable foreign match (0.85) scored for a business with screens: 0.6375
C13_Witness ==
    /\ SuitApplied /\ ~Paywalled(call.t) /\ Foreign(call.a) /\ ~call.a.colombian_involvement
    /\ call.a.is_broadcastable /\ call.a.broadcastability_score = 850000
    /\ call.business # NoBusiness /\ call.business.has_tv_screens
    /\ call.result = 637500

\* C14: for a foreign sports event with Colombian involvement and a reference
\* business with screens, the suitability is base x 0.4 + 0.2 (base the
\* event-type table value, 0.4 for a type outside the tables), followed by the
\* keyword adjustments and the clip to [0, 1]; base 0.85 gives 0.54
C14_ForeignInvolved ==
    ( /\ SuitApplied /\ ~Paywalled(call.t) /\ Foreign(call.a) /\ call.a.colombian_involvement
      /\ call.event_type \in {"sports_match", "tournament"}
      /\ call.business # NoBusiness /\ call.business.has_tv_screens )
        => LET base == IF call.event_type = "sports_match" THEN 850000 ELSE 400000
               before == (base * 4) \div 10 + 200000
               boost == IF "cerveza" \in call.t.words THEN 100000 ELSE 0
               negative == IF "homicidio" \in call.t.words THEN 500000 ELSE 0
               penalty == IF call.a.extracted_keywords = {} /\ call.t.short THEN 300000 ELSE 0
           IN call.result = Max(0, Min(Unit, before + boost - negative - penalty))

\* the worked example: a match (base 0.85) abroad with Colombian involvement, a
\* text without hospitality or negative keywords, a business with screens: 0.54
C14_Witness ==
    /\ SuitApplied /\ ~Paywalled(call.t) /\ Foreign(call.a) /\ call.a.colombian_involvement
    /\ call.event_type = "sports_match"
    /\ call.business # NoBusiness /\ call.business.has_tv_screens
    /\ "cerveza" \notin call.t.words /\ "homicidio" \notin call.t.words /\ ~call.t.short
    /\ call.result = 540000

\* C15: for a detected event type outside sports_match, marathon and tournament
\* calculate returns score 0, hype 0, is_broadcastable false and no sport or
\* competition, and after a process_article run (the text and the taxonomy being
\* those of the run) an article with such a type is not stored as broadcastable
C15_NonSportsNeverBroadcastable ==
    (last.run > 0 /\ article.event_type_detected \notin {"sports_match", "marathon", "tournament"})
        => /\ calculate(text, article.event_type_detected, article.expected_attendance,
                        Taxonomy)
                = [broadcastability_score |-> 0, hype_score |-> 0, is_broadcastable |-> FALSE,
                   sport_type |-> None, competition_level |-> None]
           /\ ~article.is_broadcastable
           /\ article.broadcastability_score = 0
           /\ article.hype_score = 0

\* a saving run stored a concert announcement with its features
C15_Witness ==
    /\ last.run > 0 /\ last.save /\ ~last.excepted
    /\ article.features_extracted /\ article.event_type_detected = "concert"
    /\ ~article.is_broadcastable

\* the four weights (hundredths) are non-negative and sum to 1.0
ValidWeights(cfg) ==
    /\ cfg.sport_appeal_weight >= 0 /\ cfg.competition_level_weight >= 0
    /\ cfg.hype_indicators_weight >= 0 /\ cfg.attendance_weight >= 0
    /\ cfg.sport_appeal_weight + cfg.competition_level_weight
         + cfg.hype_indicators_weight + cfg.attendance_weight = 100

\* C16: for every configuration whose four weights are non-negative and sum to
\* 1.0, and every article and taxonomy, the score returned by calculate lies
\* in [0, 1]
C16_ScoreInUnitInterval ==
    call.fn = "calculate" =>
        \A k \in {1, 2} :
            (call.applied[k] /\ ValidWeights(call.tax[k].config))
                => /\ call.result[k].broadcastability_score >= 0
                   /\ call.result[k].broadcastability_score <= Unit

\* a final scored with all the weight on the hype component and a negative
\* boost on the matching indicator: the weighted sum is below zero, the score is 0
C16_Witness ==
    /\ call.fn = "calculate" /\ call.applied[1]
    /\ call.event_type_detected = "sports_match"
    /\ call.tax[1].config.hype_indicators_weight = 100
    /\ call.tax[1].hype_indicators[1].hype_boost < 0
    /\ Found(call.tax[1].hype_indicators[1].pattern, call.t)
    /\ call.result[1].broadcastability_score = 0

C19_ValidatedAtWrite ==
    /\ config # NoConfig => clean(config)
    /\ (call.fn = "BroadcastabilityConfig" /\ call.rejected) => config = call.before

\* no active taxonomy pattern of target 'type' occurs in the text
NoTaxonomyMatch(t, table) ==
    \A i \in 1..Len(table) :
        (table[i].is_active /\ table[i].target = "type") => ~Found(table[i].pattern, t)

\* the built-in types with a pattern that occurs in the text
BuiltinHits(t) ==
    { EVENT_TYPE_PATTERNS[i].event_type : i \in { j \in 1..Len(EVENT_TYPE_PATTERNS) :
        \E k \in 1..Len(EVENT_TYPE_PATTERNS[j].patterns) :
            Found(EVENT_TYPE_PATTERNS[j].patterns[k], t) } }

\* C20 as stated: when no active taxonomy pattern of target 'type' matches the
\* text, extract_event_type classifies with the built-in table and returns a
\* non-empty event type
C20_FallbackNonEmpty ==
    ( /\ call.fn = "extract_event_type" /\ call.applied
      /\ NoTaxonomyMatch(call.t, call.table) )
        => call.result[1] # None /\ call.result[1] \in BuiltinHits(call.t)

\* C20 amended: when no active taxonomy pattern of target 'type' matches the
\* text, extract_event_type classifies with the built-in table: it returns the
\* built-in type with the highest match count when a built-in pattern matches,
\* and no type and no subtype when none does
C20_FallbackBuiltin ==
    ( /\ call.fn = "extract_event_type" /\ call.applied
      /\ NoTaxonomyMatch(call.t, call.table) )
        => IF BuiltinHits(call.t) = {}
           THEN call.result = <<None, None>>
           ELSE /\ call.result[1] \in BuiltinHits(call.t)
                /\ \A d \in BuiltinHits(call.t) :
                      BuiltinTypeScore(call.t, call.result[1]) >= BuiltinTypeScore(call.t, d)

\* the taxonomy's sports patterns are switched off and a league match is
\* classified as sports_match by the built-in table
C20_Witness ==
    /\ call.fn = "extract_event_type" /\ call.applied
    /\ NoTaxonomyMatch(call.t, call.table)
    /\ "campeonato" \in call.t.words
    /\ call.result[1] = "sports_match"

\* the latest run repeated on the same rows with the malformed patterns removed
RunWithoutBadPatterns ==
    ProcessArticle([stored |-> last.before_article, rows |-> last.before_recs,
                    bizs |-> last.businesses, t |-> text, today |-> last.now, save |-> TRUE,
                    llm |-> last.llm, fault |-> NoFault, run |-> last.run,
                    table |-> WellFormedTable(call.table),
                    tax |-> WellFormedTaxonomy(call.tax)])

\* C21: a malformed extraction pattern or hype indicator is skipped: the run
\* completes successfully and stores the article and the rows that the other
\* patterns give
C21_BadPatternSkipped ==
    (call.fn = "taxonomy" /\ last.run > 0)
        => /\ last.success /\ ~last.excepted
           /\ article = RunWithoutBadPatterns.article
           /\ recs = RunWithoutBadPatterns.recs


\* C22: the snapshot a call returns was loaded at most CACHE_DURATION seconds
\* before the call, whatever time has passed since the load
C22_StalenessBounded ==
    (call.fn = "cache" /\ call.result.returned)
        => call.result.called_at - call.result.loaded_at <= CACHE_DURATION


\* C23: a reader beside a refresh sees the weights and the three tables of one
\* version: all old or all new, never new weights with old tables
C23_NoMixedSnapshot ==
    (call.fn = "refresh" /\ call.observed.read)
        => \E v \in 0..MaxVersions : call.observed.calc = Snapshot(v)


\* C24: whatever saves and runs happen, the stored source, title, content, url,
\* author, published date and section of an existing article stay as created
C24_ProtectedFieldsKept ==
    call.fn = "save"
        => \A f \in protected_fields : call.row[f] = CreatedRow[f]

\* a save that carried a changed protected value came after a run, and the row
\* took the unprotected change only
C24_Witness ==
    /\ call.fn = "save"
    /\ last.run > 0
    /\ call.saved.caller = "_save_article"
    /\ call.saved.carried = {"title", "content"}
    /\ call.row.first_paragraph = "recrawled"
    /\ call.row.title = "crawled"


\* C25: a run with save=False leaves the database as it was: the article row and
\* the recommendation rows after the run are those before it
C25_DryRunChangesNothing ==
    (last.run > 0 /\ ~last.save)
        => /\ article = last.before_article
           /\ recs = last.before_recs


\* the levels of the call's taxonomy that apply to the detected sport and have a
\* keyword in the text
MatchingLevels ==
    { i \in 1..Len(call.tax.competition_levels) :
        /\ \/ call.detected_sport = None
           \/ call.tax.competition_levels[i].sport_type = None
           \/ call.tax.competition_levels[i].sport_type = call.detected_sport
        /\ KeywordMatches(call.tax.competition_levels[i].keywords, call.t) > 0 }

\* C26: with a matching level the component is the highest matching multiplier
\* over 3.0 and the code is that level's; the default 0.33 without a code is
\* returned only when no level matches
C26_HighestMatchingLevel ==
    (call.fn = "competition" /\ call.applied)
        => IF MatchingLevels = {}
           THEN call.result = <<330000, None>>
           ELSE \E i \in MatchingLevels :
                   /\ \A j \in MatchingLevels :
                         call.tax.competition_levels[i].broadcast_multiplier
                            >= call.tax.competition_levels[j].broadcast_multiplier
                   /\ call.result[1]
                        = (call.tax.competition_levels[i].broadcast_multiplier * Unit) \div 30
                   /\ call.result[2] = call.tax.competition_levels[i].code


\* one level above: low -> medium -> high -> urgent, urgent stays
OneLevelUp(priority) ==
    CASE priority = "low" -> "medium"
      [] priority = "medium" -> "high"
      [] OTHER -> "urgent"

\* the template's priority for the scale of the call's article
TemplatePriority(r) ==
    TEMPLATES[call.a.event_type_detected].templates[r.template].priority_by_scale[
        IF call.a.event_scale = "" THEN "medium" ELSE call.a.event_scale]

\* the event of the call's article is at most 2 days after the call
EventSoon ==
    /\ call.a.event_start_datetime # NoDay
    /\ Max(0, call.a.event_start_datetime - GenToday) <= 2

\* C27: a recommendation generated for an event at most 2 days away has the
\* priority one level above the template's priority for the scale; any other
\* recommendation has the template's priority
C27_PriorityEscalated ==
    (call.fn = "generate" /\ call.applied)
        => \A r \in call.result :
              r.priority = IF EventSoon THEN OneLevelUp(TemplatePriority(r))
                           ELSE TemplatePriority(r)


\* the active businesses, at the latest run, that pass the geographic gate for
\* the stored article
GatedBusinesses ==
    { b \in 1..NumBusinesses :
        last.businesses[b].is_active /\ is_relevant(article, last.businesses[b]) }

\* the gated businesses whose relevance is strictly above 0.4
AboveThreshold ==
    { b \in GatedBusinesses :
        calculate_relevance(article, text, last.businesses[b]) > 400000 }

\* C28: after a run that reaches matching the stored relevance is the highest
\* relevance among the gated active businesses (0 when there is none), the
\* recommendations are generated for exactly the gated businesses above 0.4,
\* and only gated businesses are scored
C28_MatchingOverGated ==
    (last.run > 0 /\ last.processed)
        => /\ \A b \in GatedBusinesses :
                 article.business_relevance_score
                    >= calculate_relevance(article, text, last.businesses[b])
           /\ \/ article.business_relevance_score = 0
              \/ \E b \in GatedBusinesses :
                    article.business_relevance_score
                       = calculate_relevance(article, text, last.businesses[b])
           /\ last.scored = GatedBusinesses
           /\ last.matching = AboveThreshold
           /\ last.created =
                 UNION { generate(article, last.businesses[b],
                                  calculate_relevance(article, text, last.businesses[b]),
                                  last.now, last.run) : b \in AboveThreshold }

\* a run scored one business above 0.4 and left out an active business that
\* fails the gate
C28_Witness ==
    /\ last.run > 0 /\ last.processed
    /\ last.matching # {}
    /\ \E b \in 1..NumBusinesses : last.businesses[b].is_active /\ b \notin last.scored
    /\ last.created # {}
    /\ article.business_relevance_score > 400000


\* C29: a run that ended in an exception does not mark the article processed:
\* an article that was unprocessed before the failed run is unprocessed after it
C29_FailedRunNotMarked ==
    (last.run > 0 /\ last.excepted /\ ~last.before_article.features_extracted)
        => ~article.features_extracted


\* the latest call marked the source uncrawlable with a block of 24 hours
MarkedUncrawlable ==
    /\ call.crawl.crawled
    /\ call.crawl.after.crawl_status = "uncrawlable"
    /\ call.crawl.after.crawl_retry_after = [set |-> TRUE, at |-> call.crawl.at + RETRY_HOURS]

\* the latest call crawled, found no article and detected no SPA
ZeroArticlesNoSpa ==
    call.crawl.crawled /\ ~call.crawl.articles_found /\ ~call.crawl.is_spa

\* C30: a crawl that saves articles resets failed_crawl_count to 0 and clears the
\* retry block; a zero-article crawl without SPA adds one to the count, and the
\* source is marked uncrawlable for 24 hours exactly when that brings the count to
\* 3 or more; while the block of an uncrawlable or spa_detected source is in force
\* the call returns blocked, crawls nothing and leaves the source as it was
C30_RetryBlock ==
    (call.fn = "crawl" /\ call.crawl.done)
        => /\ call.crawl.articles_saved
                => /\ call.crawl.after.failed_crawl_count = 0
                   /\ call.crawl.after.crawl_retry_after = NoRetry
           /\ ZeroArticlesNoSpa
                => call.crawl.after.failed_crawl_count
                      = call.crawl.before.failed_crawl_count + 1
           /\ MarkedUncrawlable
                <=> (ZeroArticlesNoSpa /\ call.crawl.after.failed_crawl_count >= 3)
           /\ Blocked(call.crawl.before, call.crawl.at)
                => /\ call.crawl.blocked /\ ~call.crawl.crawled
                   /\ call.crawl.after = call.crawl.before

\* the third zero-article crawl in a row marked the source, and the next call
\* within the 24 hours came back blocked
C30_Witness ==
    /\ call.fn = "crawl" /\ call.crawl.done
    /\ call.crawl.blocked
    /\ call.crawl.before.crawl_status = "uncrawlable"
    /\ call.crawl.before.failed_crawl_count = 3
    /\ call.source = call.crawl.before

=============================================================================
